---- MODULE Spec2Model ----
(***************************************************************************)
(* A model of the expression pipeline of the SAP BO -> Power BI migrator:  *)
(* the harvester (utils/expression_extractor.py), the NIM enhancement of   *)
(* harvested records, and batch translation (agents/translator_agent.py).  *)
(*                                                                         *)
(* Python strings are sequences of one-character strings, so that strip,   *)
(* lower, substring tests and regular-expression searches are computed.    *)
(***************************************************************************)
EXTENDS Integers, Sequences, FiniteSets, TLC

(***************************************************************************)
(* Strings                                                                 *)
(***************************************************************************)
UpperChars == <<"A","B","C","D","E","F","G","H","I","J","K","L","M",
                "N","O","P","Q","R","S","T","U","V","W","X","Y","Z">>
LowerChars == <<"a","b","c","d","e","f","g","h","i","j","k","l","m",
                "n","o","p","q","r","s","t","u","v","w","x","y","z">>
DigitChars == {"0","1","2","3","4","5","6","7","8","9"}
SpaceChars == {" ", "\t", "\n", "\r"}
WordChars  == {UpperChars[i] : i \in 1..26} \cup {LowerChars[i] : i \in 1..26}
                \cup DigitChars \cup {"_"}

\* str.lower() on one character
LowerOf == [c \in {UpperChars[i] : i \in 1..26} |->
               LowerChars[CHOOSE i \in 1..26 : UpperChars[i] = c]]
LowerChar(c) == IF c \in DOMAIN LowerOf THEN LowerOf[c] ELSE c

\* str.lower()
Lower(s) == [i \in 1..Len(s) |-> LowerChar(s[i])]

\* str.upper() on one character
UpperChar(c) ==
    IF \E i \in 1..26 : LowerChars[i] = c
    THEN UpperChars[CHOOSE i \in 1..26 : LowerChars[i] = c] ELSE c

\* str.upper()
Upper(s) == [i \in 1..Len(s) |-> UpperChar(s[i])]

\* str.strip(): drop leading and trailing whitespace
Strip(s) ==
    LET keep == {i \in 1..Len(s) : s[i] \notin SpaceChars}
    IN  IF keep = {} THEN <<>>
        ELSE LET lo == CHOOSE i \in keep : \A j \in keep : i <= j
                 hi == CHOOSE i \in keep : \A j \in keep : j <= i
             IN  SubSeq(s, lo, hi)

\* `sub in s` for Python strings
Contains(s, sub) ==
    \E p \in 0..(Len(s) - Len(sub)) : SubSeq(s, p + 1, p + Len(sub)) = sub

(***************************************************************************)
(* Regular expressions (the subset of `re` the extractor's patterns use).  *)
(* A pattern is a sequence of items; an item is a record                   *)
(*   [op |-> "lit",  cs |-> {c}]            a literal character            *)
(*   [op |-> "in",   cs |-> S]              a character of S ( \s, [..] )  *)
(*   [op |-> "notin",cs |-> S]              a character not in S ([^..], .)*)
(*   [op |-> "wb",   cs |-> {}]             \b                             *)
(* with a repetition  rep \in {"one", "star", "plus"}.                     *)
(* Matching is by sets of positions: a position p stands between s[p] and  *)
(* s[p+1].  All patterns are searched with re.IGNORECASE | re.DOTALL.      *)
(***************************************************************************)
Lit(c)     == [op |-> "lit",   cs |-> {c},        rep |-> "one"]
AnyOf(S)   == [op |-> "in",    cs |-> S,          rep |-> "one"]
NoneOf(S)  == [op |-> "notin", cs |-> S,          rep |-> "one"]
WB         == [op |-> "wb",    cs |-> {},         rep |-> "one"]
Star(it)   == [it EXCEPT !.rep = "star"]
Plus(it)   == [it EXCEPT !.rep = "plus"]
Dot        == NoneOf({})
WS         == AnyOf(SpaceChars)
Lits(cs)   == [i \in 1..Len(cs) |-> Lit(cs[i])]

\* one character against one item, case-insensitively
CharMatches(it, c) ==
    CASE it.op = "lit"   -> LowerChar(c) \in {LowerChar(x) : x \in it.cs}
      [] it.op = "in"    -> c \in it.cs
      [] it.op = "notin" -> c \notin it.cs
      [] OTHER           -> FALSE

IsWordAt(s, i) == i >= 1 /\ i <= Len(s) /\ s[i] \in WordChars

\* positions reached from the positions P by one occurrence of the item
StepOne(it, s, P) ==
    IF it.op = "wb"
    THEN {p \in P : IsWordAt(s, p) # IsWordAt(s, p + 1)}
    ELSE {p + 1 : p \in {q \in P : q < Len(s) /\ CharMatches(it, s[q + 1])}}

\* positions reached from P by zero or more occurrences of the item: q is
\* reached from p when every character between them matches the item
Closure(it, s, P) ==
    IF it.op = "wb" THEN P
    ELSE LET B == {k \in 1..Len(s) : ~CharMatches(it, s[k])}
         IN  {q \in 0..Len(s) :
                 \E p \in P : p <= q /\ \A b \in B : b <= p \/ b > q}

StepItem(it, s, P) ==
    CASE it.rep = "one"  -> StepOne(it, s, P)
      [] it.rep = "star" -> Closure(it, s, P)
      [] it.rep = "plus" -> Closure(it, s, StepOne(it, s, P))

RECURSIVE Ends(_, _, _, _)
\* positions where a match of items k.. of the pattern, begun in P, can end
Ends(pat, k, s, P) ==
    IF k > Len(pat) \/ P = {} THEN P
    ELSE Ends(pat, k + 1, s, StepItem(pat[k], s, P))

\* re.search(pattern, s, re.IGNORECASE | re.DOTALL) is not None
ReSearch(pat, s) == Ends(pat, 1, s, 0..Len(s)) # {}

(***************************************************************************)
(* utils/expression_extractor.py: the pattern and vocabulary tables        *)
(***************************************************************************)
\* r"@Name\([^)]+\)"
AnnotationPattern(name) ==
    Lits(name) \o <<Plus(NoneOf({")"})), Lit(")")>>

\* r"\bNAME\s*\([^)]+\)"
AggregatePattern(name) ==
    <<WB>> \o Lits(name)
      \o <<Star(WS), Lit("("), Plus(NoneOf({")"})), Lit(")")>>

\* r"\bNAME\s*\([^)]*\)"
ToDatePattern(name) ==
    <<WB>> \o Lits(name)
      \o <<Star(WS), Lit("("), Star(NoneOf({")"})), Lit(")")>>

\* r"\bCase\s+When\s+.*\s+Then\s+.*\s+End\b"
CaseWhenPattern ==
    <<WB>> \o Lits(<<"c","a","s","e">>) \o <<Plus(WS)>>
      \o Lits(<<"w","h","e","n">>) \o <<Plus(WS), Star(Dot), Plus(WS)>>
      \o Lits(<<"t","h","e","n">>) \o <<Plus(WS), Star(Dot), Plus(WS)>>
      \o Lits(<<"e","n","d">>) \o <<WB>>

\* r"\bIf\s*\([^)]*\)\s+Then\s+[^;]*\s+Else\s+[^;]*"
IfThenElsePattern ==
    <<WB>> \o Lits(<<"i","f">>)
      \o <<Star(WS), Lit("("), Star(NoneOf({")"})), Lit(")"), Plus(WS)>>
      \o Lits(<<"t","h","e","n">>)
      \o <<Plus(WS), Star(NoneOf({";"})), Plus(WS)>>
      \o Lits(<<"e","l","s","e">>)
      \o <<Plus(WS), Star(NoneOf({";"}))>>

SAPBO_EXPRESSION_PATTERNS == <<
    AnnotationPattern(<<"@","s","e","l","e","c","t","(">>),
    AnnotationPattern(<<"@","p","r","o","m","p","t","(">>),
    AnnotationPattern(<<"@","a","g","g","r","e","g","a","t","e","_",
                        "a","w","a","r","e","(">>),
    CaseWhenPattern,
    IfThenElsePattern,
    AggregatePattern(<<"s","u","m">>),
    AggregatePattern(<<"c","o","u","n","t">>),
    AggregatePattern(<<"a","v","g">>),
    AggregatePattern(<<"m","i","n">>),
    AggregatePattern(<<"m","a","x">>),
    ToDatePattern(<<"y","t","d">>),
    ToDatePattern(<<"q","t","d">>),
    ToDatePattern(<<"m","t","d">>) >>

\* the case-sensitive names of the last line of _is_transformable_expression
AnnotationNames == {
    <<"@","S","e","l","e","c","t">>,
    <<"@","P","r","o","m","p","t">>,
    <<"@","A","g","g","r","e","g","a","t","e","_","A","w","a","r","e">> }

SAPBO_EXPRESSION_FIELDS == {
    <<"s","q","l","_","d","e","f","i","n","i","t","i","o","n">>,
    <<"w","h","e","r","e","_","e","x","p","r","e","s","s","i","o","n">>,
    <<"e","x","p","r","e","s","s","i","o","n">>,
    <<"f","o","r","m","u","l","a">>,
    <<"c","a","l","c","u","l","a","t","i","o","n">>,
    <<"f","i","l","t","e","r","_","e","x","p","r","e","s","s","i","o","n">>,
    <<"m","e","a","s","u","r","e">>,
    <<"c","a","l","c","u","l","a","t","e","d","_","m","e","m","b","e","r">> }

SAPBO_OBJECT_TYPES == <<
    <<"d","i","m","e","n","s","i","o","n","s">>,
    <<"m","e","a","s","u","r","e","s">>,
    <<"f","i","l","t","e","r","s">>,
    <<"a","t","t","r","i","b","u","t","e","s">>,
    <<"c","a","l","c","u","l","a","t","i","o","n","s">> >>

\* the threshold of `len(st) < 3`
MinExpressionLen == 3
\* the threshold of `len(expression) > 200`
LongExpressionLen == 200

KeyName    == <<"n","a","m","e">>
KeyId      == <<"i","d">>
UnknownStr == <<"u","n","k","n","o","w","n">>

\* _is_transformable_expression(s), s a str
IsTransformableExpression(s) ==
    IF s = <<>> THEN FALSE
    ELSE LET st == Strip(s)
         IN  IF Len(st) < MinExpressionLen THEN FALSE
             ELSE \/ \E k \in 1..Len(SAPBO_EXPRESSION_PATTERNS) :
                        ReSearch(SAPBO_EXPRESSION_PATTERNS[k], st)
                  \/ \E func \in AnnotationNames : Contains(st, func)

\* the complex_patterns of _needs_nim_translation
ComplexPatterns == <<
    AnnotationPattern(<<"@","s","e","l","e","c","t","(">>),
    AnnotationPattern(<<"@","p","r","o","m","p","t","(">>),
    AnnotationPattern(<<"@","a","g","g","r","e","g","a","t","e","_",
                        "a","w","a","r","e","(">>),
    \* r"\bCase\s+When.*Then.*End\b"
    <<WB>> \o Lits(<<"c","a","s","e">>) \o <<Plus(WS)>>
       \o Lits(<<"w","h","e","n">>) \o <<Star(Dot)>>
       \o Lits(<<"t","h","e","n">>) \o <<Star(Dot)>>
       \o Lits(<<"e","n","d">>) \o <<WB>>,
    \* r"\bIf.*Then.*Else.*"
    <<WB>> \o Lits(<<"i","f">>) \o <<Star(Dot)>>
       \o Lits(<<"t","h","e","n">>) \o <<Star(Dot)>>
       \o Lits(<<"e","l","s","e">>) \o <<Star(Dot)>>,
    \* r"\bjoin\b.*\bon\b"
    <<WB>> \o Lits(<<"j","o","i","n">>) \o <<WB, Star(Dot), WB>>
       \o Lits(<<"o","n">>) \o <<WB>> >>

\* _needs_nim_translation(expression)
NeedsNimTranslation(expression) ==
    LET expression_lower == Lower(expression)
    IN  \/ \E k \in 1..Len(ComplexPatterns) :
               ReSearch(ComplexPatterns[k], expression_lower)
        \/ Len(expression) > LongExpressionLen

(***************************************************************************)
(* The field values of the documents checked, and the two classifiers      *)
(* tabulated over them (each is computed once per value, not per state).   *)
(***************************************************************************)
\* field values: an aggregate, the same aggregate with surrounding
\* whitespace, two annotation calls, and a text no signature matches
ValSum       == <<"S","U","M","(","a",")">>
ValSumPadded == <<" ","S","U","M","(","a",")">>
ValSelect    == <<"@","S","e","l","e","c","t","(","t",")">>
ValPlain     == <<"a","b","c">>
ValPrompt    == <<"@","P","r","o","m","p","t","(","p",")">>
ValuePool    == {ValSum, ValSumPadded, ValSelect, ValPlain}
NimValues    == {ValSum, ValSelect, ValPrompt}
\* an aggregate of exactly LongExpressionLen characters, and the same
\* aggregate after a space
ValLong      ==
    <<"S","U","M","(">> \o [k \in 1..(LongExpressionLen - 5) |-> "a"]
      \o <<")">>
ValLongPadded == <<" ">> \o ValLong
LongValues   == {ValLong, ValLongPadded}
AllValues    == ValuePool \cup NimValues \cup LongValues

TransformableOf == [v \in AllValues |-> IsTransformableExpression(v)]
NeedsNimOf      == [v \in AllValues |-> NeedsNimTranslation(v)]

IsTransformable(s) ==
    IF s \in AllValues THEN TransformableOf[s] ELSE IsTransformableExpression(s)
NeedsNim(s) ==
    IF s \in AllValues THEN NeedsNimOf[s] ELSE NeedsNimTranslation(s)

(***************************************************************************)
(* Parsed JSON values.  Every node has the same three fields; the entries  *)
(* of an object carry their key, the entries of an array the empty key.    *)
(* An object's keys are distinct, as json.loads builds a dict.             *)
(***************************************************************************)
StrNode(s)      == [kind |-> "str",  str |-> s,    items |-> <<>>]
NumNode         == [kind |-> "num",  str |-> <<>>, items |-> <<>>]
DictNode(items) == [kind |-> "dict", str |-> <<>>, items |-> items]
ListNode(items) == [kind |-> "list", str |-> <<>>, items |-> items]
Entry(k, v)     == [key |-> k, val |-> v]
Item(v)         == [key |-> <<>>, val |-> v]

\* dict.get(key, default)
DictGet(obj, key, default) ==
    IF \E i \in 1..Len(obj.items) : obj.items[i].key = key
    THEN obj.items[CHOOSE i \in 1..Len(obj.items) : obj.items[i].key = key].val
    ELSE default

DecimalDigits == <<"0","1","2","3","4","5","6","7","8","9">>

RECURSIVE IntToStr(_)
\* str(i) of a natural number, as the f-string f"[{i}]" formats it
IntToStr(i) ==
    IF i < 10 THEN <<DecimalDigits[i + 1]>>
    ELSE IntToStr(i \div 10) \o <<DecimalDigits[(i % 10) + 1]>>

RECURSIVE SplitFrom(_, _, _, _)
SplitFrom(s, sep, i, cur) ==
    IF i > Len(s) THEN <<cur>>
    ELSE IF /\ i + Len(sep) - 1 <= Len(s)
            /\ SubSeq(s, i, i + Len(sep) - 1) = sep
    THEN <<cur>> \o SplitFrom(s, sep, i + Len(sep), <<>>)
    ELSE SplitFrom(s, sep, i + 1, Append(cur, s[i]))

\* s.split(sep), sep a non-empty string
Split(s, sep) == SplitFrom(s, sep, 1, <<>>)

\* f"{current_path}.{key}" if current_path else key
JoinPath(current_path, key) ==
    IF current_path # <<>> THEN current_path \o <<".">> \o key ELSE key

\* f"{current_path}[{i}]"
IndexPath(current_path, i) ==
    current_path \o <<"[">> \o IntToStr(i) \o <<"]">>

\* the loop over current_path.split('.') that sets obj_type
ResolveObjectType(current_path) ==
    IF current_path = <<>> THEN UnknownStr
    ELSE LET parts == Split(current_path, <<".">>)
             hits  == {p \in 1..Len(parts) :
                          \E t \in 1..Len(SAPBO_OBJECT_TYPES) :
                              parts[p] = SAPBO_OBJECT_TYPES[t]}
         IN  IF hits = {} THEN UnknownStr
             ELSE parts[CHOOSE p \in hits : \A q \in hits : p <= q]

\* the field names looked for in the key as written
IsEssentialFieldAsWritten(key) ==
    \E field \in SAPBO_EXPRESSION_FIELDS : Contains(key, field)

\* any(field in key_lower for field in SAPBO_EXPRESSION_FIELDS)
IsEssentialField(key) ==
    \E field \in SAPBO_EXPRESSION_FIELDS : Contains(Lower(key), field)

\* the dict appended to results for one matching key/value pair
MakeRecord(obj, current_path, key, value) ==
    [ path        |-> JoinPath(current_path, key),
      text        |-> Strip(value.str),
      object_type |-> ResolveObjectType(current_path),
      object_name |-> DictGet(obj, KeyName,
                              DictGet(obj, KeyId, StrNode(UnknownStr))),
      field_type  |-> key,
      needs_nim   |-> NeedsNim(value.str) ]

RECURSIVE ExtractTransformable(_, _, _)
RECURSIVE ExtractEntries(_, _, _, _)
\* _extract_transformable_expressions(obj, current_path, results)
ExtractTransformable(obj, current_path, results) ==
    IF obj.kind \in {"dict", "list"}
    THEN ExtractEntries(obj, 1, current_path, results)
    ELSE results

\* the for loops of _extract_transformable_expressions, from entry k on
ExtractEntries(obj, k, current_path, results) ==
    IF k > Len(obj.items) THEN results
    ELSE LET key   == obj.items[k].key
             value == obj.items[k].val
         IN  IF obj.kind = "dict"
             THEN IF /\ IsEssentialField(key)
                     /\ value.kind = "str"
                     /\ IsTransformable(value.str)
                  THEN ExtractEntries(obj, k + 1, current_path,
                           Append(results,
                                  MakeRecord(obj, current_path, key, value)))
                  ELSE IF value.kind \in {"dict", "list"}
                  THEN ExtractEntries(obj, k + 1, current_path,
                           ExtractTransformable(value,
                               JoinPath(current_path, key), results))
                  ELSE ExtractEntries(obj, k + 1, current_path, results)
             ELSE ExtractEntries(obj, k + 1, current_path,
                      ExtractTransformable(value,
                          IndexPath(current_path, k - 1), results))

(***************************************************************************)
(* extract_expressions(file_content, max_hits)                             *)
(*                                                                         *)
(* The argument is [kind, wellformed, doc]: kind is the Python type of the *)
(* value ("str", "bytes", "file" for an open file object, "none"); for a   *)
(* str or bytes, wellformed says whether it is JSON text and doc is what   *)
(* json.loads returns.                                                     *)
(***************************************************************************)
\* json.loads(file_content): the value, or the exception it raises
JsonLoads(file_content) ==
    IF file_content.kind \in {"str", "bytes"}
    THEN IF file_content.wellformed
         THEN [exc |-> "none", value |-> file_content.doc]
         ELSE [exc |-> "JSONDecodeError", value |-> NumNode]
    ELSE [exc |-> "TypeError", value |-> NumNode]

RECURSIVE UniqueFromForgetsSeen(_, _, _, _, _)
\* the loop without `seen_texts.add(expr['text'])`
UniqueFromForgetsSeen(expressions, k, unique_expressions, seen_texts, max_hits) ==
    IF k > Len(expressions) THEN unique_expressions
    ELSE LET expr == expressions[k]
         IN  IF expr.text \notin seen_texts
             THEN LET unique == Append(unique_expressions, expr)
                  IN  IF Len(unique) >= max_hits
                      THEN unique
                      ELSE UniqueFromForgetsSeen(expressions, k + 1, unique,
                                                 seen_texts, max_hits)
             ELSE UniqueFromForgetsSeen(expressions, k + 1,
                                        unique_expressions, seen_texts, max_hits)

RECURSIVE UniqueFromLastWins(_, _, _, _, _)
\* the loop with a later duplicate overwriting the record kept
UniqueFromLastWins(expressions, k, unique_expressions, seen_texts, max_hits) ==
    IF k > Len(expressions) THEN unique_expressions
    ELSE LET expr == expressions[k]
         IN  IF expr.text \notin seen_texts
             THEN LET unique == Append(unique_expressions, expr)
                  IN  IF Len(unique) >= max_hits
                      THEN unique
                      ELSE UniqueFromLastWins(expressions, k + 1, unique,
                               seen_texts \cup {expr.text}, max_hits)
             ELSE UniqueFromLastWins(expressions, k + 1,
                      [i \in 1..Len(unique_expressions) |->
                          IF unique_expressions[i].text = expr.text
                          THEN expr ELSE unique_expressions[i]],
                      seen_texts, max_hits)

RECURSIVE UniqueFrom(_, _, _, _, _)
\* the deduplication loop over expressions[k..]
UniqueFrom(expressions, k, unique_expressions, seen_texts, max_hits) ==
    IF k > Len(expressions) THEN unique_expressions
    ELSE LET expr == expressions[k]
         IN  IF expr.text \notin seen_texts
             THEN LET unique == Append(unique_expressions, expr)
                  IN  IF Len(unique) >= max_hits
                      THEN unique
                      ELSE UniqueFrom(expressions, k + 1, unique,
                                      seen_texts \cup {expr.text}, max_hits)
             ELSE UniqueFrom(expressions, k + 1, unique_expressions,
                             seen_texts, max_hits)

\* `except json.JSONDecodeError` alone
ExtractCatchesDecodeErrorOnly(exc) == exc = "JSONDecodeError"

\* `except Exception`: the exceptions the handler of extract_expressions catches
ExtractCatches(exc) == exc \in {"JSONDecodeError", "TypeError"}

\* extract_expressions: [raised, value], raised the exception that escapes
ExtractExpressions(file_content, max_hits) ==
    LET loaded == JsonLoads(file_content)
    IN  IF loaded.exc # "none"
        THEN IF ExtractCatches(loaded.exc)
             THEN [raised |-> "none", value |-> <<>>]
             ELSE [raised |-> loaded.exc, value |-> <<>>]
        ELSE [raised |-> "none",
              value  |-> UniqueFrom(
                             ExtractTransformable(loaded.value, <<>>, <<>>),
                             1, <<>>, {}, max_hits)]

(***************************************************************************)
(* The inputs of the harvester: a metadata export is an object with an     *)
(* optional top-level formula and an optional folder; the folder holds one *)
(* object or an array of objects, and may itself lie in an outer folder;   *)
(* an object has an optional name and a formula.                           *)
(***************************************************************************)
\* bounds: objects in a folder's array, and the max_hits argument
MaxObjects == 2
MaxHitsArg == 3

KeyFormula    == <<"F","o","r","m","u","l","a">>
KeyMeasures   == <<"m","e","a","s","u","r","e","s">>
KeyDimensions == <<"d","i","m","e","n","s","i","o","n","s">>
NameM1        == <<"m","1">>

\* {"name": "m1", "Formula": v} or {"Formula": v}
ObjectNodes ==
    {DictNode(<<Entry(KeyFormula, StrNode(v))>>) : v \in ValuePool}
      \cup {DictNode(<<Entry(KeyName, StrNode(NameM1)),
                       Entry(KeyFormula, StrNode(v))>>) : v \in ValuePool}

ArrayNodes ==
    {ListNode(items) :
        items \in UNION {[1..m -> {Item(o) : o \in ObjectNodes}]
                         : m \in 0..MaxObjects}}

\* {"measures": folder}, or the folder one level down in "dimensions"
FolderEntries ==
    LET inner == {Entry(KeyMeasures, f) : f \in ObjectNodes \cup ArrayNodes}
    IN  inner \cup {Entry(KeyDimensions, DictNode(<<e>>)) : e \in inner}

TopFormulas == {Entry(KeyFormula, StrNode(v)) : v \in ValuePool}

Documents ==
    {DictNode(<<>>), NumNode}
      \cup {DictNode(<<t>>) : t \in TopFormulas}
      \cup {DictNode(<<f>>) : f \in FolderEntries}
      \cup {DictNode(<<f, t>>) : f \in FolderEntries, t \in TopFormulas}
      \cup ArrayNodes

\* further exports: a top-level formula at the length threshold, a
\* signature under a key that names no formula field, a formula key with a
\* number, a formula key with an object holding a formula, and an array in
\* an array
ExtraDocuments ==
    {DictNode(<<Entry(KeyFormula, StrNode(v))>>) : v \in LongValues}
      \cup {DictNode(<<Entry(KeyName, StrNode(ValSum))>>),
            DictNode(<<Entry(KeyFormula, NumNode)>>),
            DictNode(<<Entry(KeyFormula,
                             DictNode(<<Entry(KeyFormula,
                                              StrNode(ValSum))>>))>>),
            ListNode(<<Item(ListNode(<<Item(DictNode(
                <<Entry(KeyFormula, StrNode(ValSelect))>>))>>))>>)}

AllDocuments == Documents \cup ExtraDocuments

\* documents offered under every Python type, not only as text
SmallDocuments == {d \in Documents : Len(d.items) <= 1}

TextInput(doc)  == [kind |-> "str",   wellformed |-> TRUE,  doc |-> doc]
BytesInput(doc) == [kind |-> "bytes", wellformed |-> TRUE,  doc |-> doc]
FileInput(doc)  == [kind |-> "file",  wellformed |-> TRUE,  doc |-> doc]
MalformedText   == [kind |-> "str",   wellformed |-> FALSE, doc |-> NumNode]
MalformedFile   == [kind |-> "file",  wellformed |-> FALSE, doc |-> NumNode]
NoneInput       == [kind |-> "none",  wellformed |-> FALSE, doc |-> NumNode]

Inputs ==
    {TextInput(d) : d \in AllDocuments}
      \cup {BytesInput(d) : d \in SmallDocuments}
      \cup {FileInput(d) : d \in SmallDocuments}
      \cup {MalformedText, MalformedFile, NoneInput}

(***************************************************************************)
(* NIMTranslator.translate_to_dax and enhance_with_nim                     *)
(*                                                                         *)
(* A Python dict is a function from its keys; a key the dict lacks is not  *)
(* in its domain.  The answer of the HTTP POST is                          *)
(*   [kind, status, body, content]: kind "Timeout" or "ConnectionError"    *)
(*   when session.post raises, else "response"; body says what             *)
(*   response.json() holds: "notjson" (json() raises ValueError),          *)
(*   "nofields" (no choices[0].message.content: KeyError), or "content".   *)
(***************************************************************************)
\* timeout=30 of session.post, in seconds
PostTimeout == 30

\* the backquote character (not writable in a string of this language)
Backtick == "BACKTICK"
Fence    == <<Backtick, Backtick, Backtick>>

FailedMarker == <<"/","*"," ","T","r","a","n","s","l","a","t","i","o","n",
                  " ","f","a","i","l","e","d"," ","*","/">>

PyNone == [py |-> "None"]

\* d[k] = v
SetKey(d, k, v) == [x \in DOMAIN d \cup {k} |-> IF x = k THEN v ELSE d[x]]

NimFailure ==
    [dax_translation    |-> FailedMarker,
     translation_method |-> "NIM-error",
     confidence         |-> "low"]

NimSuccess(dax_code) ==
    [dax_translation    |-> dax_code,
     translation_method |-> "NIM",
     confidence         |-> "high"]

HttpTimeout    == [kind |-> "Timeout", status |-> 0, body |-> "none", content |-> <<>>]
HttpConnection == [kind |-> "ConnectionError", status |-> 0, body |-> "none", content |-> <<>>]
HttpStatus(n)  == [kind |-> "response", status |-> n, body |-> "none", content |-> <<>>]
HttpNotJson    == [kind |-> "response", status |-> 200, body |-> "notjson", content |-> <<>>]
HttpNoFields   == [kind |-> "response", status |-> 200, body |-> "nofields", content |-> <<>>]
HttpContent(c) == [kind |-> "response", status |-> 200, body |-> "content", content |-> c]

\* message contents the provider answers with: code, code in a fence, blank
ContentPlain  == <<"S","U","M","(","x",")">>
ContentFenced == Fence \o <<"X">> \o Fence
ContentBlank  == <<" ">>
ContentPool   == {ContentPlain, ContentFenced, ContentBlank}

\* the answers that arrive before the timeout runs out
HttpAnswers ==
    {HttpConnection, HttpStatus(500), HttpNotJson, HttpNoFields}
      \cup {HttpContent(c) : c \in ContentPool}

\* an answer that is no translation
HttpFailed(http) ==
    http.kind # "response" \/ http.status # 200 \/ http.body # "content"

\* dax_code from the message content: stripped, and the inside of the last
\* fence when there is one
DaxCode(content) ==
    LET dax_code == Strip(content)
    IN  IF Contains(dax_code, Fence)
        THEN LET parts == Split(dax_code, Fence)
             IN  IF Len(parts) > 2 THEN Strip(parts[Len(parts) - 1])
                 ELSE dax_code
        ELSE dax_code

\* the try block of translate_to_dax: the exception it raises, or whether it
\* returned and what
TryTranslate(http) ==
    IF http.kind # "response"
    THEN [exc |-> http.kind, returned |-> FALSE, value |-> NimFailure]
    ELSE IF http.status = 200
    THEN CASE http.body = "notjson" ->
                  [exc |-> "ValueError", returned |-> FALSE, value |-> NimFailure]
           [] http.body = "content" ->
                  [exc |-> "none", returned |-> TRUE,
                   value |-> NimSuccess(DaxCode(http.content))]
           [] OTHER ->
                  [exc |-> "KeyError", returned |-> FALSE, value |-> NimFailure]
    ELSE [exc |-> "none", returned |-> FALSE, value |-> NimFailure]

\* only the exceptions of the requests library
NimCatchesRequestErrorsOnly(exc) == exc \in {"Timeout", "ConnectionError"}

\* `except Exception` of translate_to_dax
NimCatches(exc) == exc \in {"Timeout", "ConnectionError", "ValueError", "KeyError"}

\* translate_to_dax: [raised, value]
TranslateToDax(http) ==
    LET t == TryTranslate(http)
    IN  IF t.exc # "none" /\ ~NimCatches(t.exc)
        THEN [raised |-> t.exc, value |-> NimFailure]
        ELSE IF t.exc = "none" /\ t.returned
        THEN [raised |-> "none", value |-> t.value]
        ELSE [raised |-> "none", value |-> NimFailure]

KeyEmpty       == ""
KeyPlaceholder == "Bearer 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"
KeyValid       == "nvapi-key"
ApiKeys        == {KeyEmpty, KeyPlaceholder, KeyValid}

\* the first test of enhance_with_nim
EnhanceSkips(key) == key = KeyEmpty \/ key = KeyPlaceholder

\* the two branches of the loop body of enhance_with_nim
MarkNim(expr, nim_result) ==
    SetKey(SetKey(expr, "nim_translation", nim_result),
           "translation_method", "NIM")
MarkRuleBased(expr) ==
    SetKey(SetKey(expr, "translation_method", "rule_based"),
           "nim_translation", PyNone)

\* expr.get('translation_method') == 'NIM', the dashboard's count
CountedAsNim(expr) ==
    "translation_method" \in DOMAIN expr /\ expr.translation_method = "NIM"

\* bound: the records of a harvested batch handed to enhance_with_nim
MaxBatch == 2


\* harvested batches: what extract_expressions returns for {"measures": [..]}
HarvestedBatches ==
    {ExtractExpressions(
         TextInput(DictNode(<<Entry(KeyMeasures, ListNode(items))>>)),
         MaxBatch).value :
       items \in UNION {[1..m -> {Item(DictNode(<<Entry(KeyFormula, StrNode(v))>>))
                                  : v \in NimValues}]
                        : m \in 1..MaxBatch}}

(***************************************************************************)
(* Batch translation: agents/translator_agent.py.  translate_hybrid        *)
(* (core/translator_router.py) and translate_rule_based (core/rulebook.py) *)
(* are modelled from the design: the Rulebook always runs first; with      *)
(* prefer_nim and a configured provider one bounded external call is made, *)
(* whose failure leaves the external result absent; chosen is the external *)
(* translation when it is present and preferred, else the rule's.          *)
(***************************************************************************)
\* names of target functions
NameSUM     == <<"S","U","M">>
NameCOUNT   == <<"C","O","U","N","T">>
NameAVG     == <<"A","V","G">>
NameAVERAGE == <<"A","V","E","R","A","G","E">>

Letters == WordChars \ DigitChars

\* the position after the run of characters of cs that starts at i
RunEnd(s, i, cs) ==
    CHOOSE j \in i..(Len(s) + 1) :
        /\ \A k \in i..(j - 1) : s[k] \in cs
        /\ j = Len(s) + 1 \/ s[j] \notin cs

\* the position of the first c at or after i, Len(s) + 1 when there is none
FindChar(s, i, c) ==
    CHOOSE j \in i..(Len(s) + 1) :
        /\ \A k \in i..(j - 1) : s[k] # c
        /\ j = Len(s) + 1 \/ s[j] = c

\* the closing character of a quoted or bracketed token
Closer(c) == IF c = "[" THEN "]" ELSE c

Openers == {"'", "\"", "["}

\* the characters of s that open or close nothing
PlainChars(s) == {s[k] : k \in 1..Len(s)} \ (Openers \cup {"(", ")"})

RECURSIVE Levels(_, _, _)
\* for every position from i on, the number of open parentheses before it,
\* and -1 inside a string literal or a bracketed name
Levels(s, i, depth) ==
    IF i > Len(s) THEN <<>>
    ELSE IF s[i] \in Openers
    THEN LET j == FindChar(s, i + 1, Closer(s[i]))
             e == IF j > Len(s) THEN Len(s) ELSE j
         IN  [k \in 1..(e - i + 1) |-> -1] \o Levels(s, e + 1, depth)
    ELSE IF s[i] = "(" THEN <<depth>> \o Levels(s, i + 1, depth + 1)
    ELSE IF s[i] = ")" THEN <<depth - 1>> \o Levels(s, i + 1, depth - 1)
    ELSE LET j == RunEnd(s, i, PlainChars(s))
         IN  [k \in 1..(j - i) |-> depth] \o Levels(s, j, depth)

RECURSIVE BalancedFrom(_, _, _)
\* parentheses, quotes and brackets are balanced from i on
BalancedFrom(s, i, depth) ==
    IF i > Len(s) THEN depth = 0
    ELSE IF s[i] \in Openers
    THEN LET j == FindChar(s, i + 1, Closer(s[i]))
         IN  j <= Len(s) /\ BalancedFrom(s, j + 1, depth)
    ELSE IF s[i] = "(" THEN BalancedFrom(s, i + 1, depth + 1)
    ELSE IF s[i] = ")" THEN depth > 0 /\ BalancedFrom(s, i + 1, depth - 1)
    ELSE BalancedFrom(s, RunEnd(s, i, PlainChars(s)), depth)

\* only the numbers of opening and closing parentheses compared
BalancedParenthesesOnly(s) ==
    Cardinality({k \in 1..Len(s) : s[k] = "("})
      = Cardinality({k \in 1..Len(s) : s[k] = ")"})

\* parentheses, quotes and brackets of s are balanced
Balanced(s) == BalancedFrom(s, 1, 0)

\* the fixed table of function names, by lower-cased legacy name
NameIF        == <<"I","F">>
NameMIN       == <<"M","I","N">>
NameMAX       == <<"M","A","X">>
NameYEAR      == <<"Y","E","A","R">>
NameQUARTER   == <<"Q","U","A","R","T","E","R">>
NameMONTH     == <<"M","O","N","T","H">>
NameTODAY     == <<"T","O","D","A","Y">>
NameCurrentDate == <<"c","u","r","r","e","n","t","d","a","t","e">>

AggregateNames ==
    [k \in {Lower(NameSUM), Lower(NameCOUNT), Lower(NameAVG), Lower(NameMIN),
            Lower(NameMAX)} |->
        IF k = Lower(NameAVG) THEN NameAVERAGE ELSE Upper(k)]

DateNames ==
    [k \in {Lower(NameYEAR), Lower(NameQUARTER), Lower(NameMONTH),
            NameCurrentDate} |->
        IF k = NameCurrentDate THEN NameTODAY ELSE Upper(k)]

\* the target name of a called function; other names pass through
FunctionName(id) ==
    LET k == Lower(id)
    IN  IF k = Lower(NameIF) THEN NameIF
        ELSE IF k \in DOMAIN AggregateNames THEN AggregateNames[k]
        ELSE IF k \in DOMAIN DateNames THEN DateNames[k]
        ELSE id

\* a semicolon stays one unless it separates the arguments of the
\* outermost If alone
ArgSeparatorOutermostOnly(stack) ==
    IF Len(stack) = 1 /\ Head(stack) THEN "," ELSE ";"

\* what a semicolon becomes: a comma right inside the argument list of an
\* If, at any depth, and itself elsewhere
ArgSeparator(stack) ==
    IF stack # <<>> /\ Head(stack) THEN "," ELSE ";"

\* the field reference left in dot notation
FieldRefDotted(table, field) == table \o <<".">> \o field

\* Table.Field -> Table[Field]
FieldRef(table, field) == table \o <<"[">> \o field \o <<"]">>

\* the characters of s that no rewrite looks at: blanks, operators
OtherChars(s) ==
    {s[k] : k \in 1..Len(s)}
      \ (Openers \cup WordChars \cup {"(", ")", ";"})

RECURSIVE Scan(_, _, _)
\* the textual rewrites, from position i; stack holds, for every open
\* parenthesis, whether it is the argument list of an If.
\*   'text' -> "text";  If(c; t; e) -> IF(c, t, e), also nested;
\*   Name( -> the target name;  Table.Field -> Table[Field]
Scan(s, i, stack) ==
    IF i > Len(s) THEN <<>>
    ELSE IF s[i] = "'"
    THEN LET j == FindChar(s, i + 1, "'")
         IN  IF j > Len(s) THEN SubSeq(s, i, Len(s))
             ELSE <<"\"">> \o SubSeq(s, i + 1, j - 1) \o <<"\"">>
                    \o Scan(s, j + 1, stack)
    ELSE IF s[i] \in Openers
    THEN LET j == FindChar(s, i + 1, Closer(s[i]))
             e == IF j > Len(s) THEN Len(s) ELSE j
         IN  SubSeq(s, i, e) \o Scan(s, e + 1, stack)
    ELSE IF s[i] \in DigitChars
    THEN LET j == RunEnd(s, i, WordChars \cup {"."})
         IN  SubSeq(s, i, j - 1) \o Scan(s, j, stack)
    ELSE IF s[i] \in Letters
    THEN LET j  == RunEnd(s, i, WordChars)
             id == SubSeq(s, i, j - 1)
         IN  IF j <= Len(s) /\ s[j] = "("
             THEN FunctionName(id) \o <<"(">>
                    \o Scan(s, j + 1, <<Lower(id) = Lower(NameIF)>> \o stack)
             ELSE IF j < Len(s) /\ s[j] = "." /\ s[j + 1] \in Letters
             THEN LET k == RunEnd(s, j + 1, WordChars)
                  IN  FieldRef(id, SubSeq(s, j + 1, k - 1)) \o Scan(s, k, stack)
             ELSE id \o Scan(s, j, stack)
    ELSE IF s[i] = "(" THEN <<"(">> \o Scan(s, i + 1, <<FALSE>> \o stack)
    ELSE IF s[i] = ")"
    THEN <<")">> \o Scan(s, i + 1, IF stack = <<>> THEN <<>> ELSE Tail(stack))
    ELSE IF s[i] = ";"
    THEN <<ArgSeparator(stack)>> \o Scan(s, i + 1, stack)
    ELSE LET j == RunEnd(s, i, OtherChars(s))
         IN  SubSeq(s, i, j - 1) \o Scan(s, j, stack)

KwCase  == <<"c","a","s","e">>
KwWhen  == <<"w","h","e","n">>
KwThen  == <<"t","h","e","n">>
KwElse  == <<"e","l","s","e">>
KwEnd   == <<"e","n","d">>
KwWhere == <<"w","h","e","r","e">>

\* the keyword kw stands at position i of s, as a word of its own, outside
\* parentheses, string literals and bracketed names; lv is Levels of s
KeywordAt(s, lv, i, kw) ==
    LET e == i + Len(kw) - 1
    IN  /\ i >= 1 /\ e <= Len(s)
        /\ lv[i] = 0
        /\ Lower(SubSeq(s, i, e)) = kw
        /\ i = 1 \/ s[i - 1] \notin WordChars
        /\ e = Len(s) \/ s[e + 1] \notin WordChars

\* the r-th smallest element of a set of numbers
Nth(S, r) == CHOOSE p \in S : Cardinality({x \in S : x <= p}) = r

RECURSIVE JoinArgs(_)
\* ", ".join(args)
JoinArgs(args) ==
    IF args = <<>> THEN <<>>
    ELSE IF Len(args) = 1 THEN args[1]
    ELSE args[1] \o <<",", " ">> \o JoinArgs(Tail(args))

\* the keywords of a Case block after its Case, in order: [pos, kw]
CaseKeywords(s, lv) ==
    LET at(kw) == {i \in 5..Len(s) : KeywordAt(s, lv, i, kw)}
        P      == at(KwWhen) \cup at(KwThen) \cup at(KwElse) \cup at(KwEnd)
    IN  [r \in 1..Cardinality(P) |->
            LET p == Nth(P, r)
            IN  [pos |-> p,
                 kw  |-> CHOOSE kw \in {KwWhen, KwThen, KwElse, KwEnd} :
                            KeywordAt(s, lv, p, kw)]]

\* Case (When c Then r)+ [Else d] End, as the whole of s
IsCaseBlock(s, lv, K) ==
    LET n == Len(K)
        m == IF n >= 2 /\ K[n - 1].kw = KwElse THEN n - 2 ELSE n - 1
    IN  /\ KeywordAt(s, lv, 1, KwCase)
        /\ n >= 3
        /\ K[n].kw = KwEnd /\ K[n].pos + Len(KwEnd) - 1 = Len(s)
        /\ m >= 2 /\ m % 2 = 0
        /\ \A r \in 1..m : K[r].kw = IF r % 2 = 1 THEN KwWhen ELSE KwThen

\* the clause that follows the r-th keyword, up to the next keyword
Clause(s, K, r) ==
    Strip(SubSeq(s, K[r].pos + Len(K[r].kw), K[r + 1].pos - 1))

\* the clauses of a Case block without the one after Else
CaseClausesWithoutDefault(s, K) ==
    [r \in 1..(IF K[Len(K) - 1].kw = KwElse THEN Len(K) - 2 ELSE Len(K) - 1)
        |-> Clause(s, K, r)]

\* the clauses of a Case block in source order: every condition and
\* result, and last the default after Else when there is one
CaseClauses(s, K) == [r \in 1..(Len(K) - 1) |-> Clause(s, K, r)]

\* the position of the first Where of s outside parentheses, 0 for none
WherePos(s, lv) ==
    LET P == {i \in 1..Len(s) : KeywordAt(s, lv, i, KwWhere)}
    IN  IF P = {} THEN 0 ELSE Nth(P, 1)

\* s is one call Name(args): the position of its "(", 0 when it is not
CallParen(s) ==
    IF s = <<>> \/ s[1] \notin Letters THEN 0
    ELSE LET j  == RunEnd(s, 1, WordChars)
             lv == Levels(s, 1, 0)
         IN  IF /\ j < Len(s) /\ s[j] = "(" /\ s[Len(s)] = ")"
                /\ lv[Len(s)] = 0
                /\ \A k \in (j + 1)..(Len(s) - 1) : lv[k] # 0
             THEN j ELSE 0

\* the target name of the aggregate of an aggregate + filter; SUM by default
\* with the name taken as it is
AggregateOfAsWritten(id) ==
    IF Lower(id) \in DOMAIN AggregateNames
    THEN AggregateNames[Lower(id)] ELSE id

\* the target name of the aggregate of an aggregate + filter; SUM by default
AggregateOf(id) ==
    IF Lower(id) \in DOMAIN AggregateNames
    THEN AggregateNames[Lower(id)] ELSE NameSUM

PrefixSWITCH    == <<"S","W","I","T","C","H","(","T","R","U","E","(",")",",",
                     " ">>
PrefixCALCULATE == <<"C","A","L","C","U","L","A","T","E","(">>

RECURSIVE RuleList(_)
\* the ordered rule list on a stripped, balanced expression: the Case block,
\* the aggregate + filter, then the textual rewrites; the clauses of a
\* construct go through the rule list again
RuleList(s) ==
    LET lv == Levels(s, 1, 0)
        K  == CaseKeywords(s, lv)
        w  == WherePos(s, lv)
        L  == IF w = 0 THEN <<>> ELSE Strip(SubSeq(s, 1, w - 1))
        p  == CallParen(L)
    IN  IF IsCaseBlock(s, lv, K)
        THEN PrefixSWITCH
               \o JoinArgs([r \in 1..Len(CaseClauses(s, K)) |->
                               RuleList(CaseClauses(s, K)[r])])
               \o <<")">>
        ELSE IF w # 0 /\ p # 0
        THEN PrefixCALCULATE
               \o AggregateOf(SubSeq(L, 1, p - 1)) \o <<"(">>
               \o Scan(SubSeq(L, p + 1, Len(L) - 1), 1, <<>>) \o <<")">>
               \o <<",", " ">>
               \o RuleList(Strip(SubSeq(s, w + Len(KwWhere), Len(s))))
               \o <<")">>
        ELSE Scan(s, 1, <<>>)

\* translate_rule_based(expr, source, target): the rule list on the
\* expression; an expression that is unbalanced or that no rule rewrites is
\* passed through unchanged with a low confidence
TranslateRuleBased(expr) ==
    LET s == Strip(expr)
    IN  IF ~Balanced(s) THEN [translation |-> expr, confidence |-> "low"]
        ELSE LET t == RuleList(s)
             IN  IF t = s THEN [translation |-> expr, confidence |-> "low"]
                 ELSE [translation |-> t, confidence |-> "high"]

\* the external result of translate_hybrid: absent unless the call succeeded
ExternalResult(http) ==
    IF HttpFailed(http) THEN PyNone
    ELSE [translation |-> http.content, confidence |-> "high"]

\* a source produced a translation: it is present and not the empty string
Produced(r) == r # PyNone /\ r.translation # <<>>

\* the result record of translate_hybrid: chosen is the external translation
\* when it was asked for and produced, else the rule's, else the marker
HybridResult(rule, external, prefer_nim) ==
    [rule   |-> rule,
     nim    |-> external,
     chosen |-> IF prefer_nim /\ Produced(external) THEN external.translation
                ELSE IF Produced(rule) THEN rule.translation
                ELSE FailedMarker]

\* translate_expression with the default of prefer_nim handed on instead
TranslateExpressionDropsPreference(expr, external, prefer) ==
    HybridResult(TranslateRuleBased(expr), external, FALSE)

\* translate_expression(expr, source, target, prefer_nim): translate_hybrid
\* with the caller's prefer_nim; external is what its external call gave
TranslateExpression(expr, external, prefer) ==
    HybridResult(TranslateRuleBased(expr), external, prefer)

\* the loop body with the result put first instead
PrependResult(results, r, e) ==
    <<SetKey(r, "source_expression", e)>> \o results

\* the loop body of translate_batch_from_list after translate_expression:
\* r.update({"source_expression": e}); results.append(r)
AppendResult(results, r, e) ==
    Append(results, SetKey(r, "source_expression", e))

ExprPlain    == <<"a","b","c">>
ExprFieldRef == <<"T",".","F">>
ExprEmpty    == <<>>
ExprPool     == {ExprPlain, ExprFieldRef, ExprEmpty}

\* bound: the expressions of a batch
MaxExprs == 3

ExprLists == UNION {[1..m -> ExprPool] : m \in 0..MaxExprs}

(***************************************************************************)
(* State                                                                   *)
(***************************************************************************)
VARIABLES
    \* the harvester and its callers
    file_content,   \* the value handed to the harvester
    max_hits,       \* its max_hits argument
    caller,         \* who called: "none", "direct", "agent" or "app"
    hits,           \* what the call returned: [raised, value]
    app_message,    \* what app.py shows
    \* app.py's enhancement of a harvested batch
    records,        \* the dicts of the harvested batch (`expressions`)
    api_key,        \* nvidia_api_key
    enable_nim,     \* the "Enable NIM Translations" checkbox
    epc,            \* "off", "start", "loop", "inflight", "returned",
                    \* "raised", "shown"
    eidx,           \* the loop's position in expressions, from 1
    enhanced,       \* enhanced_expressions, as positions in records
    waited,         \* seconds the POST in flight has been waited for
    http_log,       \* the external calls ended so far: [idx, http]
    nim_count,      \* the dashboard's "NIM Translations" metric
    \* translate_batch_from_list
    exprs,          \* the expressions to translate
    prefer_nim,     \* its prefer_nim argument
    provider,       \* whether an external provider is configured
    bpc,            \* "off", "start", "loop", "external", "returned"
    bidx,           \* the loop's position in exprs, from 1
    results,        \* results
    \* a call of translate_rule_based
    rule_expr,      \* its expression argument
    rule_result,    \* what it returned, None before the call
    \* a call of to_dax_measure
    measure_args,   \* [table, target, agg, source_col]
    measure,        \* what it returned, None before the call
    \* a TFIDFIndex object and the calls made on it
    texts,          \* self.texts
    matrix,         \* self.matrix: None, or [rows], a row of terms per text
    vectorizer,     \* self.vectorizer: its vocabulary and transformer
    fit_outcome,    \* the last fit: "off", "new", "returned" or "raised"
    search_args,    \* the last search: [query, top_k]
    ranked,         \* what it gave: [raised, value], None before it
    \* a run of validate_orchestrator.py
    orch_args,      \* its arguments and what it finds on disk
    runner,         \* how validate_migration_rules.py would end
    report          \* the report it prints and its exit code, None before

harvestVars == <<file_content, max_hits, caller, hits>>
enhanceVars == <<records, api_key, enable_nim, epc, eidx, enhanced, waited,
                 http_log, nim_count>>
batchVars   == <<exprs, prefer_nim, provider, bpc, bidx, results>>
ruleVars    == <<rule_expr, rule_result>>
measureVars == <<measure_args, measure>>
indexVars   == <<texts, matrix, vectorizer, fit_outcome, search_args, ranked>>
orchVars    == <<orch_args, runner, report>>
vars == <<harvestVars, app_message, enhanceVars, batchVars, ruleVars,
          measureVars, indexVars, orchVars>>

NoHits == [raised |-> "none", value |-> <<>>]

HarvestIdle ==
    /\ file_content = NoneInput
    /\ max_hits = 0
    /\ caller = "off"
    /\ hits = NoHits

EnhanceIdle ==
    /\ records = <<>>
    /\ api_key = KeyEmpty
    /\ enable_nim = FALSE
    /\ epc = "off"
    /\ eidx = 0
    /\ enhanced = <<>>
    /\ waited = 0
    /\ http_log = <<>>
    /\ nim_count = 0

BatchIdle ==
    /\ exprs = <<>>
    /\ prefer_nim = FALSE
    /\ provider = FALSE
    /\ bpc = "off"
    /\ bidx = 0
    /\ results = <<>>

RuleIdle ==
    /\ rule_expr = <<>>
    /\ rule_result = PyNone

MeasureIdle ==
    /\ measure_args = PyNone
    /\ measure = PyNone

IndexIdle ==
    /\ texts = <<>>
    /\ matrix = PyNone
    /\ vectorizer = PyNone
    /\ fit_outcome = "off"
    /\ search_args = PyNone
    /\ ranked = PyNone

OrchIdle ==
    /\ orch_args = PyNone
    /\ runner = PyNone
    /\ report = PyNone

(***************************************************************************)
(* The harvester                                                           *)
(***************************************************************************)
InitHarvest ==
    /\ file_content \in Inputs
    /\ max_hits \in 0..MaxHitsArg
    /\ caller = "none"
    /\ hits = NoHits
    /\ app_message = "none"
    /\ EnhanceIdle
    /\ BatchIdle
    /\ RuleIdle
    /\ MeasureIdle
    /\ IndexIdle
    /\ OrchIdle

\* a direct call extract_expressions(file_content, max_hits)
CallExtract ==
    /\ caller = "none"
    /\ caller' = "direct"
    /\ hits' = ExtractExpressions(file_content, max_hits)
    /\ UNCHANGED <<file_content, max_hits, app_message, enhanceVars, batchVars, ruleVars,
                   measureVars, indexVars, orchVars>>

\* harvest_expressions_from_file(fileobj, max_hits): rewinds the file and
\* hands the file object itself to extract_expressions
HarvestExpressionsFromFile ==
    /\ caller = "none"
    /\ file_content.kind = "file"
    /\ caller' = "agent"
    /\ hits' = ExtractExpressions(file_content, max_hits)
    /\ UNCHANGED <<file_content, max_hits, app_message, enhanceVars, batchVars, ruleVars,
                   measureVars, indexVars, orchVars>>

\* app.py, upload handler up to the empty-result check: the uploaded bytes
\* are decoded to a str, harvested, and an empty result stops the script
\* with a warning; an escaping exception reaches `except Exception`
AppExtract ==
    /\ caller = "none"
    /\ file_content.kind = "str"
    /\ caller' = "app"
    /\ LET r == ExtractExpressions(file_content, max_hits)
       IN  /\ hits' = r
           /\ app_message' =
                  IF r.raised # "none" THEN "error: Error processing file"
                  ELSE IF r.value = <<>>
                       THEN "warning: No transformable expressions found"
                       ELSE "expressions"
    /\ UNCHANGED <<file_content, max_hits, enhanceVars, batchVars, ruleVars,
                   measureVars, indexVars, orchVars>>

NextHarvest == CallExtract \/ HarvestExpressionsFromFile \/ AppExtract

SpecHarvest == InitHarvest /\ [][NextHarvest]_vars

(***************************************************************************)
(* app.py after extraction: enhance_with_nim over the harvested batch,     *)
(* then the statistics.  The POST of translate_to_dax is in flight between *)
(* NimPost and NimReply (or NimTimeout).                                   *)
(***************************************************************************)
InitEnhance ==
    /\ records \in HarvestedBatches
    /\ api_key \in ApiKeys
    /\ enable_nim \in BOOLEAN
    /\ epc = "start"
    /\ eidx = 0
    /\ enhanced = <<>>
    /\ waited = 0
    /\ http_log = <<>>
    /\ nim_count = 0
    /\ app_message = "expressions"
    /\ HarvestIdle
    /\ BatchIdle
    /\ RuleIdle
    /\ MeasureIdle
    /\ IndexIdle
    /\ OrchIdle

\* `if enable_nim and nvidia_api_key:` is false: no enhancement
AppSkipsEnhance ==
    /\ epc = "start"
    /\ ~(enable_nim /\ api_key # KeyEmpty)
    /\ epc' = "returned"
    /\ UNCHANGED <<records, api_key, enable_nim, eidx, enhanced, waited,
                   http_log, nim_count, app_message, harvestVars, ruleVars, measureVars, indexVars, orchVars, batchVars>>

\* enhance_with_nim is entered: it returns expressions at once without a
\* usable key, else starts its loop
EnhanceBegin ==
    /\ epc = "start"
    /\ enable_nim /\ api_key # KeyEmpty
    /\ IF EnhanceSkips(api_key)
       THEN epc' = "returned" /\ UNCHANGED <<eidx, enhanced>>
       ELSE epc' = "loop" /\ eidx' = 1 /\ enhanced' = <<>>
    /\ UNCHANGED <<records, api_key, enable_nim, waited, http_log, nim_count,
                   app_message, harvestVars, ruleVars, measureVars, indexVars, orchVars, batchVars>>

\* one iteration for an expression that does not need NIM
EnhanceRuleBased ==
    /\ epc = "loop"
    /\ eidx <= Len(records)
    /\ ~records[eidx].needs_nim
    /\ records' = [records EXCEPT ![eidx] = MarkRuleBased(records[eidx])]
    /\ enhanced' = Append(enhanced, eidx)
    /\ eidx' = eidx + 1
    /\ UNCHANGED <<api_key, enable_nim, epc, waited, http_log, nim_count,
                   app_message, harvestVars, ruleVars, measureVars, indexVars, orchVars, batchVars>>

\* one iteration for an expression that needs NIM, up to session.post
NimPost ==
    /\ epc = "loop"
    /\ eidx <= Len(records)
    /\ records[eidx].needs_nim
    /\ epc' = "inflight"
    /\ waited' = 0
    /\ UNCHANGED <<records, api_key, enable_nim, eidx, enhanced, http_log,
                   nim_count, app_message, harvestVars, ruleVars, measureVars, indexVars, orchVars, batchVars>>

\* session.post(..., timeout=30) without the timeout argument
NeverTimedOut(w) == FALSE

\* session.post(..., timeout=30): the wait is over after PostTimeout seconds
TimedOut(w) == w >= PostTimeout

\* a second passes with no answer
NimWait ==
    /\ epc = "inflight"
    /\ ~TimedOut(waited)
    /\ waited' = waited + 1
    /\ UNCHANGED <<records, api_key, enable_nim, epc, eidx, enhanced, http_log,
                   nim_count, app_message, harvestVars, ruleVars, measureVars, indexVars, orchVars, batchVars>>

\* the rest of the iteration once session.post has ended with `http`
NimFinish(http) ==
    LET r == TranslateToDax(http)
    IN  /\ http_log' = Append(http_log, [idx |-> eidx, http |-> http])
        /\ waited' = 0
        /\ IF r.raised # "none"
           THEN /\ epc' = "raised"
                /\ UNCHANGED <<records, enhanced, eidx>>
           ELSE /\ epc' = "loop"
                /\ records' = [records EXCEPT ![eidx] = MarkNim(records[eidx], r.value)]
                /\ enhanced' = Append(enhanced, eidx)
                /\ eidx' = eidx + 1
        /\ UNCHANGED <<api_key, enable_nim, nim_count, app_message,
                       harvestVars, ruleVars, measureVars, indexVars, orchVars, batchVars>>

\* an answer, or a transport error, arrives before the timeout
NimReply ==
    /\ epc = "inflight"
    /\ ~TimedOut(waited)
    /\ \E http \in HttpAnswers : NimFinish(http)

\* the timeout runs out: session.post raises Timeout
NimTimeout ==
    /\ epc = "inflight"
    /\ TimedOut(waited)
    /\ NimFinish(HttpTimeout)

\* the loop is over: return enhanced_expressions
EnhanceReturn ==
    /\ epc = "loop"
    /\ eidx > Len(records)
    /\ epc' = "returned"
    /\ UNCHANGED <<records, api_key, enable_nim, eidx, enhanced, waited,
                   http_log, nim_count, app_message, harvestVars, ruleVars, measureVars, indexVars, orchVars, batchVars>>

\* app.py: the statistics over expressions, or the error report when
\* the enhancement raised
AppStatistics ==
    /\ epc \in {"returned", "raised"}
    /\ epc' = "shown"
    /\ IF epc = "raised"
       THEN /\ app_message' = "error: Error processing file"
            /\ UNCHANGED nim_count
       ELSE /\ nim_count' = Cardinality({i \in 1..Len(records) :
                                            CountedAsNim(records[i])})
            /\ app_message' = "statistics"
    /\ UNCHANGED <<records, api_key, enable_nim, eidx, enhanced, waited,
                   http_log, harvestVars, ruleVars, measureVars, indexVars, orchVars, batchVars>>

(***************************************************************************)
(* translate_batch_from_list(exprs, source, target, prefer_nim)            *)
(***************************************************************************)
InitBatch ==
    /\ exprs \in ExprLists
    /\ prefer_nim \in BOOLEAN
    /\ provider \in BOOLEAN
    /\ bpc = "start"
    /\ bidx = 0
    /\ results = <<>>
    /\ app_message = "none"
    /\ HarvestIdle
    /\ EnhanceIdle
    /\ RuleIdle
    /\ MeasureIdle
    /\ IndexIdle
    /\ OrchIdle

\* results = []
BatchBegin ==
    /\ bpc = "start"
    /\ bpc' = "loop"
    /\ bidx' = 1
    /\ results' = <<>>
    /\ UNCHANGED <<exprs, prefer_nim, provider, harvestVars, ruleVars, measureVars, indexVars, orchVars, app_message,
                   enhanceVars>>

\* one iteration in which translate_hybrid makes no external call
BatchRuleOnly ==
    /\ bpc = "loop"
    /\ bidx <= Len(exprs)
    /\ ~(prefer_nim /\ provider)
    /\ LET e == exprs[bidx]
           r == TranslateExpression(e, PyNone, prefer_nim)
       IN  results' = AppendResult(results, r, e)
    /\ bidx' = bidx + 1
    /\ UNCHANGED <<exprs, prefer_nim, provider, bpc, harvestVars, ruleVars,
                   measureVars, indexVars, orchVars, app_message,
                   enhanceVars>>

\* one iteration up to the external call of translate_hybrid
BatchCallsExternal ==
    /\ bpc = "loop"
    /\ bidx <= Len(exprs)
    /\ prefer_nim /\ provider
    /\ bpc' = "external"
    /\ UNCHANGED <<exprs, prefer_nim, provider, bidx, results, harvestVars, ruleVars, measureVars, indexVars, orchVars,
                   app_message, enhanceVars>>

\* how the external call of translate_hybrid can end
BatchAnswers ==
    {HttpTimeout, HttpConnection, HttpContent(ContentPlain), HttpContent(<<>>)}

\* the external call has ended with `http`: the rest of the iteration
BatchExternalEnds ==
    /\ bpc = "external"
    /\ \E http \in BatchAnswers :
          LET e == exprs[bidx]
              r == TranslateExpression(e, ExternalResult(http), prefer_nim)
          IN  /\ results' = AppendResult(results, r, e)
              /\ http_log' = Append(http_log, [idx |-> bidx, http |-> http])
    /\ bidx' = bidx + 1
    /\ bpc' = "loop"
    /\ UNCHANGED <<exprs, prefer_nim, provider, harvestVars, ruleVars, measureVars, indexVars, orchVars, app_message,
                   records, api_key, enable_nim, epc, eidx, enhanced, waited,
                   nim_count>>

\* return {"results": results}
BatchReturn ==
    /\ bpc = "loop"
    /\ bidx > Len(exprs)
    /\ bpc' = "returned"
    /\ UNCHANGED <<exprs, prefer_nim, provider, bidx, results, harvestVars, ruleVars, measureVars, indexVars, orchVars,
                   app_message, enhanceVars>>

(***************************************************************************)
(* Translation: a run is either the enhancement of a harvested batch or a  *)
(* batch translation.                                                      *)
(***************************************************************************)
InitTranslate == InitEnhance \/ InitBatch

NextTranslate ==
    \/ AppSkipsEnhance
    \/ EnhanceBegin
    \/ EnhanceRuleBased
    \/ NimPost
    \/ NimWait
    \/ NimReply
    \/ NimTimeout
    \/ EnhanceReturn
    \/ AppStatistics
    \/ BatchBegin
    \/ BatchRuleOnly
    \/ BatchCallsExternal
    \/ BatchExternalEnds
    \/ BatchReturn

SpecTranslate == InitTranslate /\ [][NextTranslate]_vars

(***************************************************************************)
(* The fields of a document, by tree address.  An address is the sequence  *)
(* of entry positions from the root; document order is the lexicographic   *)
(* order of addresses.                                                     *)
(***************************************************************************)
RECURSIVE NodeAt(_, _)
NodeAt(node, addr) ==
    IF addr = <<>> THEN node
    ELSE NodeAt(node.items[Head(addr)].val, Tail(addr))

RECURSIVE AddressesOf(_)
AddressesOf(node) ==
    {<<>>} \cup UNION { {<<i>> \o a : a \in AddressesOf(node.items[i].val)}
                        : i \in 1..Len(node.items) }

Front(a) == SubSeq(a, 1, Len(a) - 1)
ParentAt(doc, a) == NodeAt(doc, Front(a))
EntryAt(doc, a)  == ParentAt(doc, a).items[a[Len(a)]]

\* a comes before b in document order
Before(a, b) ==
    \E k \in 1..Len(a) :
        /\ k <= Len(b)
        /\ SubSeq(a, 1, k - 1) = SubSeq(b, 1, k - 1)
        /\ a[k] < b[k]

RECURSIVE PathTo(_, _, _)
\* the breadcrumb of the node at address a below `node`, whose own is `path`
PathTo(node, a, path) ==
    IF a = <<>> THEN path
    ELSE LET e == node.items[Head(a)]
         IN  PathTo(e.val, Tail(a),
                    IF node.kind = "dict" THEN JoinPath(path, e.key)
                    ELSE IndexPath(path, Head(a) - 1))

\* the addresses of the formula fields: string values of an object, under a
\* key naming a formula field, whose text matches a legacy-syntax signature
FormulaFields(doc) ==
    {a \in AddressesOf(doc) \ {<<>>} :
        /\ ParentAt(doc, a).kind = "dict"
        /\ EntryAt(doc, a).val.kind = "str"
        /\ IsEssentialField(EntryAt(doc, a).key)
        /\ IsTransformable(EntryAt(doc, a).val.str)}

TextAt(doc, a) == Strip(EntryAt(doc, a).val.str)

\* the first occurrence of each distinct text
FirstOccurrences(doc) ==
    {a \in FormulaFields(doc) :
        \A b \in FormulaFields(doc) :
            TextAt(doc, b) = TextAt(doc, a) => ~Before(b, a)}

\* the record of the field at address a
RecordAt(doc, a) ==
    MakeRecord(ParentAt(doc, a), PathTo(doc, Front(a), <<>>),
               EntryAt(doc, a).key, EntryAt(doc, a).val)

Min(a, b) == IF a <= b THEN a ELSE b

WellFormed == JsonLoads(file_content).exc = "none"
Returned   == caller \notin {"none", "off"}
Doc        == file_content.doc

(***************************************************************************)
(* Claims about the harvester                                              *)
(***************************************************************************)
\* C1: the list returned by extract_expressions holds no two records with
\* the same text.
C1_TextsUnique ==
    Returned =>
        \A i, j \in 1..Len(hits.value) :
            i # j => hits.value[i].text # hits.value[j].text

\* a document where two fields with different raw values strip to the same
\* text, harvested with room for both
C1_Witness ==
    /\ caller = "direct" /\ WellFormed
    /\ \E a, b \in FormulaFields(Doc) :
           /\ a # b
           /\ TextAt(Doc, a) = TextAt(Doc, b)
           /\ EntryAt(Doc, a).val # EntryAt(Doc, b).val
    /\ Len(hits.value) = 2
    /\ max_hits > 2

\* C2: the records returned are, in document order, the records of the first
\* occurrences of the distinct texts: record j is the record (path,
\* object_name, object_type, field_type) of the j-th first occurrence.
C2_FirstOccurrenceOrder ==
    (Returned /\ WellFormed) =>
        \A j \in 1..Len(hits.value) :
            \E a \in FirstOccurrences(Doc) :
                /\ Cardinality({b \in FirstOccurrences(Doc) : Before(b, a)}) = j - 1
                /\ hits.value[j] = RecordAt(Doc, a)

\* a later duplicate with another path and object name was dropped, and the
\* record kept is followed by the record of another text
C2_Witness ==
    /\ caller = "direct" /\ WellFormed
    /\ Len(hits.value) = 2
    /\ \E a, b \in FormulaFields(Doc) :
           /\ Before(a, b)
           /\ TextAt(Doc, a) = TextAt(Doc, b)
           /\ RecordAt(Doc, a).object_name # RecordAt(Doc, b).object_name
           /\ hits.value[1] = RecordAt(Doc, a)

\* C3: an input that json.loads cannot parse (invalid JSON text, or a value
\* that is not text) yields the empty list, and no exception escapes.
C3_UnparseableYieldsEmpty ==
    (Returned /\ ~WellFormed) => hits = [raised |-> "none", value |-> <<>>]

\* a value that is not text was harvested
C3_Witness ==
    /\ caller = "direct"
    /\ file_content.kind \notin {"str", "bytes"}
    /\ hits.value = <<>>

\* C4: for a well-formed document and max_hits >= 0 the call returns exactly
\* min(max_hits, U) records, U the number of distinct texts.
C4_ExactlyMinOfMaxHitsAndDistinct ==
    (Returned /\ WellFormed) =>
        Len(hits.value) = Min(max_hits, Cardinality(FirstOccurrences(Doc)))

\* C5: harvesting a malformed document reports a parse error: its outcome
\* differs from the outcome of harvesting a well-formed document without
\* formulas, and the dashboard shows an error.
C5_ParseErrorReported ==
    (Returned /\ ~WellFormed) =>
        /\ hits # ExtractExpressions(TextInput(DictNode(<<>>)), max_hits)
        /\ caller = "app" => app_message = "error: Error processing file"

\* C6: harvest_expressions_from_file on an open file with a well-formed
\* document returns what extract_expressions returns for the file's text.
C6_FileHarvestEqualsTextHarvest ==
    (caller = "agent" /\ file_content.wellformed) =>
        hits = ExtractExpressions(TextInput(Doc), max_hits)

(***************************************************************************)
(* Translation claims, under SpecTranslate                                 *)
(***************************************************************************)
Enhancing  == epc # "off"
Batching   == bpc # "off"
LoggedFailures == {k \in 1..Len(http_log) : HttpFailed(http_log[k].http)}

\* C7: translate_batch_from_list returns exactly len(exprs) results, and
\* result i is the translation of exprs[i] with source_expression equal to
\* exprs[i]: input order is kept and duplicates are not merged.
C7_BatchKeepsInputOrder ==
    Batching =>
      /\ bpc = "returned" => Len(results) = Len(exprs)
      /\ \A i \in 1..Len(results) :
            /\ i <= Len(exprs)
            /\ results[i].source_expression = exprs[i]
            /\ results[i].rule = TranslateRuleBased(exprs[i])
            /\ results[i].chosen \in
                   {results[i].rule.translation, FailedMarker} \cup
                   (IF results[i].nim = PyNone THEN {}
                    ELSE {results[i].nim.translation})

\* a returned batch of three with a duplicate around a different expression
C7_Witness ==
    /\ bpc = "returned"
    /\ Len(exprs) = 3
    /\ exprs[1] = exprs[3]
    /\ exprs[1] # exprs[2]
    /\ Len(results) = 3

C9_BoundedCallNeverRaises ==
    /\ waited <= PostTimeout
    /\ \A http \in HttpAnswers \cup {HttpTimeout} :
          LET r == TranslateToDax(http)
          IN  /\ r.raised = "none"
              /\ HttpFailed(http) =>
                    /\ r.value = NimFailure
                    /\ r.value.dax_translation = FailedMarker
                    /\ r.value.confidence = "low"
    /\ Enhancing =>
          \A k \in LoggedFailures :
              records[http_log[k].idx].nim_translation = NimFailure

\* the timeout has run out and the record got the failure result
C9_Witness ==
    /\ Enhancing
    /\ http_log # <<>>
    /\ http_log[1].http = HttpTimeout
    /\ records[http_log[1].idx].nim_translation = NimFailure
    /\ epc = "shown"

\* C10: after a failed external call the record of that expression carries
\* no external translation and is not reported as externally translated.
C10_FailureLeavesExternalAbsent ==
    Enhancing =>
      \A k \in LoggedFailures :
          LET expr == records[http_log[k].idx]
          IN  /\ \/ "nim_translation" \notin DOMAIN expr
                 \/ expr.nim_translation = PyNone
              /\ ~CountedAsNim(expr)

\* the record carries an external translation reported as successful
ReportedSuccess(expr) ==
    /\ "nim_translation" \in DOMAIN expr
    /\ expr.nim_translation # PyNone
    /\ expr.nim_translation.translation_method = "NIM"
    /\ expr.nim_translation.confidence = "high"

\* C11: a translation reported as successful (translation_method 'NIM',
\* confidence 'high') is never the empty string, and a call that produced
\* no translation yields the failure marker.
C11_SuccessIsNeverEmpty ==
    Enhancing =>
      \A i \in 1..Len(records) :
          /\ ReportedSuccess(records[i]) =>
                 records[i].nim_translation.dax_translation # <<>>
          /\ ("nim_translation" \in DOMAIN records[i]
                /\ records[i].nim_translation # PyNone
                /\ ~ReportedSuccess(records[i])) =>
                 records[i].nim_translation.dax_translation = FailedMarker

\* C12: chosen of a hybrid translation is the external translation when the
\* external call succeeded and prefer_nim was asked for; otherwise it is the
\* rule translation; a failed preferred source falls back to the other one;
\* when neither produced a translation chosen is the failure marker.
C12_ChosenFollowsPolicy ==
    Batching =>
      \A i \in 1..Len(results) :
          LET r == results[i]
              externalOk == r.nim # PyNone /\ r.nim.translation # <<>>
              ruleOk     == r.rule.translation # <<>>
          IN  /\ (prefer_nim /\ externalOk) => r.chosen = r.nim.translation
              /\ (~(prefer_nim /\ externalOk) /\ ruleOk) =>
                     r.chosen = r.rule.translation
              /\ (~externalOk /\ ~ruleOk) => r.chosen = FailedMarker
              /\ r.chosen # <<>>

\* a returned batch in which the three cases happened: the external
\* translation chosen, the fallback to the rule after a failed call, and
\* the marker for an expression nothing translated
C12_Witness ==
    /\ bpc = "returned"
    /\ prefer_nim
    /\ Len(results) = 3
    /\ results[1].nim # PyNone /\ results[1].chosen = results[1].nim.translation
         /\ results[1].chosen # results[1].rule.translation
    /\ results[2].nim = PyNone /\ results[2].chosen = results[2].rule.translation
         /\ HttpFailed(http_log[2].http)
    /\ results[3].rule.translation = <<>> /\ results[3].chosen = FailedMarker

\* the expressions whose external call is in flight
InFlight ==
    (IF epc = "inflight" THEN {eidx} ELSE {}) \cup
    (IF bpc = "external" THEN {bidx} ELSE {})

\* a later expression of the batch still has its external call to make
CallsRemain ==
    \/ epc = "inflight" /\ \E j \in (eidx + 1)..Len(records) : records[j].needs_nim
    \/ bpc = "external" /\ bidx < Len(exprs)

\* C13: batch translation overlaps independent external calls: while the
\* call for one expression is in flight, the call for another expression of
\* the batch can be issued, so that two calls are in flight together.
C13_ExternalCallsOverlap ==
    (InFlight # {} /\ CallsRemain) =>
        ENABLED (NimPost \/ BatchCallsExternal)

\* C14: the records the Harvester returned are immutable: no step of the
\* enhancement or of a batch translation adds, changes or removes a field
\* of a harvested record.
C14_HarvestedRecordsImmutable ==
    [][\A i \in 1..Len(records) :
          /\ i <= Len(records')
          /\ DOMAIN records'[i] = DOMAIN records[i]
          /\ records'[i] = records[i]]_vars

(***************************************************************************)
(* Measure stubs: PBIP_Migration/python/agents/logic_translator.py         *)
(***************************************************************************)
\* AGG_MAP = {"SUM": "SUM", "COUNT": "COUNT", "AVG": "AVERAGE"}
AGG_MAP ==
    [k \in {NameSUM, NameCOUNT, NameAVG} |->
        IF k = NameAVG THEN NameAVERAGE ELSE k]

\* the lookup without agg.upper()
AggFnCaseSensitive(agg) ==
    IF agg \in DOMAIN AGG_MAP THEN AGG_MAP[agg] ELSE NameSUM

\* AGG_MAP.get(agg.upper(), "SUM")
AggFn(agg) ==
    IF Upper(agg) \in DOMAIN AGG_MAP THEN AGG_MAP[Upper(agg)] ELSE NameSUM

\* to_dax_measure(table, target, agg, source_col)
ToDaxMeasure(table, target, agg, source_col) ==
    [table      |-> table,
     name       |-> target,
     expression |-> AggFn(agg) \o <<"(">> \o table \o <<"[">> \o source_col
                      \o <<"]", ")">>]

\* aggregate names, in and out of the mapping, in several cases
AggNames ==
    {<<"S","u","m">>,
     <<"S","U","M">>,
     <<"s","u","m">>,
     <<"C","o","u","n","t">>,
     <<"c","o","u","n","t">>,
     <<"C","O","U","N","T">>,
     <<"A","V","G">>,
     <<"A","v","g">>,
     <<"a","v","g">>,
     <<"M","e","d","i","a","n">>,
     <<"M","A","X">>,
     <<"M","i","n">>,
     <<"A","V","E","R","A","G","E">>,
     <<>>}
TableNames  == {<<"f","a","c","t","_","s","a","l","e","s">>,
                <<"T">>}
TargetNames == {<<"T","o","t","a","l">>}
ColumnNames == {<<"R","E","V","E","N","U","E">>,
                <<"C","U","S","T","_","I","D">>,
                <<"N","e","t"," ","A","m","o","u","n","t">>,
                <<"c">>}

InitMeasure ==
    /\ measure_args \in [table : TableNames, target : TargetNames,
                         agg : AggNames, source_col : ColumnNames]
    /\ measure = PyNone
    /\ app_message = "none"
    /\ HarvestIdle
    /\ EnhanceIdle
    /\ BatchIdle
    /\ RuleIdle
    /\ IndexIdle
    /\ OrchIdle

\* a call to_dax_measure(table, target, agg, source_col)
CallToDaxMeasure ==
    /\ measure = PyNone
    /\ measure_args # PyNone
    /\ measure' = ToDaxMeasure(measure_args.table, measure_args.target,
                               measure_args.agg, measure_args.source_col)
    /\ UNCHANGED <<measure_args, harvestVars, app_message, enhanceVars,
                   batchVars, ruleVars, indexVars, orchVars>>

NextMeasure == CallToDaxMeasure

SpecMeasure == InitMeasure /\ [][NextMeasure]_vars

\* C20: the aggregate name of a measure is looked up without regard to case
\* in Sum->SUM, Count->COUNT, Avg->AVERAGE, any other name gives SUM, and
\* the expression is AGG(Table[Column]).
C20_AggregateLookup ==
    measure # PyNone =>
      LET a   == Lower(measure_args.agg)
          fn  == CASE a = Lower(NameSUM)   -> NameSUM
                   [] a = Lower(NameCOUNT) -> NameCOUNT
                   [] a = Lower(NameAVG)   -> NameAVERAGE
                   [] OTHER                -> NameSUM
      IN  /\ measure.expression =
                fn \o <<"(">> \o measure_args.table \o <<"[">>
                   \o measure_args.source_col \o <<"]", ")">>
          /\ measure.table = measure_args.table
          /\ measure.name = measure_args.target

\* a lower-case avg has become AVERAGE, and a name outside the mapping SUM
C20_Witness ==
    /\ measure # PyNone
    /\ measure_args.agg \in {<<"a","v","g">>, <<"M","e","d","i","a","n">>}
    /\ measure_args.agg = <<"a","v","g">> =>
           SubSeq(measure.expression, 1, 7) = NameAVERAGE
    /\ measure_args.agg = <<"M","e","d","i","a","n">> =>
           SubSeq(measure.expression, 1, 4) = NameSUM \o <<"(">>

(***************************************************************************)
(* Calls of translate_rule_based, as test_rulebook.py makes them: legacy   *)
(* expressions put together from parts, each part with its target form.    *)
(***************************************************************************)
Pair(legacy, target) == [src |-> legacy, dax |-> target]

CondParts ==
    {Pair(<<"[","R","e","v","e","n","u","e","]"," ",">"," ","1","0","0","0","0">>,
         <<"[","R","e","v","e","n","u","e","]"," ",">"," ","1","0","0","0","0">>),
     Pair(<<"[","R","e","g","i","o","n","]"," ","="," ","'","A","P","A","C","'">>,
         <<"[","R","e","g","i","o","n","]"," ","="," ","\"","A","P","A","C","\"">>),
     Pair(<<"[","N","o","t","e","]"," ","="," ","'","a",";","b","'">>,
         <<"[","N","o","t","e","]"," ","="," ","\"","a",";","b","\"">>)}

ValueParts ==
    {Pair(<<"'","H","i","g","h","'">>,
         <<"\"","H","i","g","h","\"">>),
     Pair(<<"0",".","1","5">>,
         <<"0",".","1","5">>),
     Pair(<<"[","S","a","l","e","s","]"," ","*"," ","1",".","1">>,
         <<"[","S","a","l","e","s","]"," ","*"," ","1",".","1">>)}

\* If(c; t; e) and its target form IF(c, t, e)
IfOf(c, t, e) ==
    Pair(<<"I","f","(">> \o c.src \o <<";"," ">> \o t.src \o <<";"," ">>
           \o e.src \o <<")">>,
         <<"I","F","(">> \o c.dax \o <<","," ">> \o t.dax \o <<","," ">>
           \o e.dax \o <<")">>)

\* an If as a branch of an If
NestedIfs ==
    {IfOf(c, t, e) :
        c \in CondParts,
        t \in {Pair(<<"'","H","i","g","h","'">>, <<"\"","H","i","g","h","\"">>)},
        e \in {Pair(<<"0",".","1","5">>, <<"0",".","1","5">>)}}

IfCases ==
    {IfOf(c, t, e) : c \in CondParts, t \in ValueParts \cup NestedIfs,
                     e \in ValueParts \cup NestedIfs}

\* bound: the When branches of a Case block
MaxBranches == 2

Branch(c, r) == [cond |-> c, result |-> r]

BranchParts ==
    {Branch(Pair(<<"[","R","e","g","i","o","n","]"," ","="," ","'","A","P","A","C","'">>,
                <<"[","R","e","g","i","o","n","]"," ","="," ","\"","A","P","A","C","\"">>),
            Pair(<<"[","S","a","l","e","s","]"," ","*"," ","1",".","1">>,
                <<"[","S","a","l","e","s","]"," ","*"," ","1",".","1">>)),
     Branch(Pair(<<"[","R","e","g","i","o","n","]"," ","="," ","'","E","M","E","A","'">>,
                <<"[","R","e","g","i","o","n","]"," ","="," ","\"","E","M","E","A","\"">>),
            Pair(<<"[","S","a","l","e","s","]"," ","*"," ","1",".","0","5">>,
                <<"[","S","a","l","e","s","]"," ","*"," ","1",".","0","5">>)),
     Branch(Pair(<<"[","K","i","n","d","]"," ","="," ","'","T","h","e","n","'">>,
                <<"[","K","i","n","d","]"," ","="," ","\"","T","h","e","n","\"">>),
            Pair(<<"'","E","l","s","e","'">>,
                <<"\"","E","l","s","e","\"">>)),
     Branch(Pair(<<"[","R","e","v","e","n","u","e","]"," ",">"," ","1","0","0","0","0">>,
                <<"[","R","e","v","e","n","u","e","]"," ",">"," ","1","0","0","0","0">>),
            Pair(<<"I","f","(","[","V","i","p","]",";"," ","0",".","1","5",";"," ","0",".","0","5",")">>,
                <<"I","F","(","[","V","i","p","]",","," ","0",".","1","5",","," ","0",".","0","5",")">>))}

DefaultParts ==
    {Pair(<<"[","S","a","l","e","s","]">>,
         <<"[","S","a","l","e","s","]">>),
     Pair(<<"'","O","t","h","e","r","'">>,
         <<"\"","O","t","h","e","r","\"">>)}

RECURSIVE BranchesSrc(_)
BranchesSrc(bs) ==
    IF bs = <<>> THEN <<>>
    ELSE <<" ","W","h","e","n"," ">> \o bs[1].cond.src
           \o <<" ","T","h","e","n"," ">> \o bs[1].result.src
           \o BranchesSrc(Tail(bs))

RECURSIVE BranchesDax(_)
BranchesDax(bs) ==
    IF bs = <<>> THEN <<>>
    ELSE bs[1].cond.dax \o <<","," ">> \o bs[1].result.dax \o <<","," ">>
           \o BranchesDax(Tail(bs))

\* Case When c1 Then r1 ... Else d End and SWITCH(TRUE(), c1, r1, ..., d)
CaseOf(bs, d) ==
    Pair(<<"C","a","s","e">> \o BranchesSrc(bs) \o <<" ","E","l","s","e"," ">>
           \o d.src \o <<" ","E","n","d">>,
         PrefixSWITCH \o BranchesDax(bs) \o d.dax \o <<")">>)

CaseCases ==
    {CaseOf(bs, d) :
        bs \in UNION {[1..k -> BranchParts] : k \in 1..MaxBranches},
        d \in DefaultParts}

AggregateParts ==
    {Pair(<<"S","u","m">>,
         <<"S","U","M">>),
     Pair(<<"C","o","u","n","t">>,
         <<"C","O","U","N","T">>),
     Pair(<<"A","v","g">>,
         <<"A","V","E","R","A","G","E">>),
     Pair(<<"s","u","m">>,
         <<"S","U","M">>),
     Pair(<<"M","a","x">>,
         <<"M","A","X">>),
     Pair(<<"M","e","d","i","a","n">>,
         <<"S","U","M">>)}

FieldParts ==
    {Pair(<<"S","a","l","e","s",".","A","m","o","u","n","t">>,
         <<"S","a","l","e","s","[","A","m","o","u","n","t","]">>),
     Pair(<<"C","u","s","t","o","m","e","r",".","I","D">>,
         <<"C","u","s","t","o","m","e","r","[","I","D","]">>),
     Pair(<<"T",".","F">>,
         <<"T","[","F","]">>)}

FilterParts ==
    {Pair(<<"Q","u","a","r","t","e","r","(","[","O","r","d","e","r","D","a","t","e","]",")"," ","="," ","Q","u","a","r","t","e","r","(","C","u","r","r","e","n","t","D","a","t","e","(",")",")">>,
         <<"Q","U","A","R","T","E","R","(","[","O","r","d","e","r","D","a","t","e","]",")"," ","="," ","Q","U","A","R","T","E","R","(","T","O","D","A","Y","(",")",")">>),
     Pair(<<"Y","e","a","r","(","[","T","r","a","n","s","a","c","t","i","o","n"," ","D","a","t","e","]",")"," ","="," ","Y","e","a","r","(","C","u","r","r","e","n","t","D","a","t","e","(",")",")">>,
         <<"Y","E","A","R","(","[","T","r","a","n","s","a","c","t","i","o","n"," ","D","a","t","e","]",")"," ","="," ","Y","E","A","R","(","T","O","D","A","Y","(",")",")">>),
     Pair(<<"R","e","g","i","o","n",".","N","a","m","e"," ","="," ","'","A","P","A","C","'">>,
         <<"R","e","g","i","o","n","[","N","a","m","e","]"," ","="," ","\"","A","P","A","C","\"">>),
     Pair(<<"M","o","n","t","h","(","O","r","d","e","r","s",".","D","a","t","e",")"," ","="," ","1","2">>,
         <<"M","O","N","T","H","(","O","r","d","e","r","s","[","D","a","t","e","]",")"," ","="," ","1","2">>)}

\* Agg(Table.Field) Where Cond and CALCULATE(AGG(Table[Field]), Cond')
WhereOf(a, f, c) ==
    Pair(a.src \o <<"(">> \o f.src \o <<")"," ","W","h","e","r","e"," ">>
           \o c.src,
         PrefixCALCULATE \o a.dax \o <<"(">> \o f.dax \o <<")",","," ">>
           \o c.dax \o <<")">>)

WhereCases ==
    {WhereOf(a, f, c) : a \in AggregateParts, f \in FieldParts,
                        c \in FilterParts}

\* field references alone and inside aggregate calls
FieldCases ==
    FieldParts
      \cup {Pair(<<"S","u","m","(">> \o f.src \o <<")">>,
                 NameSUM \o <<"(">> \o f.dax \o <<")">>) : f \in FieldParts}
      \cup {Pair(<<"C","o","u","n","t","(","D","i","s","t","i","n","c","t"," ">>
                   \o f.src \o <<")">>,
                 NameCOUNT \o <<"(","D","i","s","t","i","n","c","t"," ">>
                   \o f.dax \o <<")">>) : f \in FieldParts}
      \cup {Pair(<<"[","A","]"," ","+"," ">> \o f.src \o <<" ","*"," ">> \o g.src,
                 <<"[","A","]"," ","+"," ">> \o f.dax \o <<" ","*"," ">> \o g.dax)
              : f \in FieldParts, g \in FieldParts}

\* expressions no rule of the list rewrites
UnmatchedExprs ==
    {<<"a","b","c">>,
     <<" ","a","b","c"," ">>,
     <<"[","A","]"," ","+"," ","1">>,
     <<"x"," ",">"," ","5">>,
     <<"F","o","o","(","a",","," ","b",")">>}

\* expressions with an unclosed or unopened parenthesis, quote or bracket
UnbalancedExprs ==
    {<<"I","f","(","a",";"," ","'","x">>,
     <<"S","u","m","(","T",".","F">>,
     <<"a",")">>,
     <<"T",".","F"," ","="," ","'","x">>,
     <<"[","A">>,
     <<"S","u","m","(","T",".","F",")",")">>,
     <<"\"","T",".","F">>}

PassthroughCases == UnmatchedExprs \cup UnbalancedExprs

RuleCases == IfCases \cup CaseCases \cup WhereCases \cup FieldCases

InitRulebook ==
    /\ rule_expr \in {c.src : c \in RuleCases} \cup PassthroughCases
    /\ rule_result = PyNone
    /\ app_message = "none"
    /\ HarvestIdle
    /\ EnhanceIdle
    /\ BatchIdle
    /\ MeasureIdle
    /\ IndexIdle
    /\ OrchIdle

\* result = translate_rule_based(sapbo_expr, "sapbo", "powerbi")
CallTranslateRuleBased ==
    /\ rule_result = PyNone
    /\ rule_expr # <<>>
    /\ rule_result' = TranslateRuleBased(rule_expr)
    /\ UNCHANGED <<rule_expr, harvestVars, app_message, enhanceVars, batchVars,
                   measureVars, indexVars, orchVars>>

NextRulebook == CallTranslateRuleBased

SpecRulebook == InitRulebook /\ [][NextRulebook]_vars

RuleReturned == rule_result # PyNone

\* C16: If(C; T; E) becomes IF(C, T, E): the semicolons between the three
\* arguments become commas, single-quoted literals become double-quoted (a
\* semicolon inside one stays), and an If inside a branch is rewritten by
\* the same rule.
C16_ConditionalRewritten ==
    \A c \in IfCases :
        (RuleReturned /\ rule_expr = c.src) => rule_result.translation = c.dax

\* an If whose condition holds a literal with a semicolon and whose first
\* branch is an If has been translated
C16_Witness ==
    \E c \in CondParts, t \in NestedIfs, e \in ValueParts :
        /\ Contains(c.src, <<";">>)
        /\ rule_expr = IfOf(c, t, e).src
        /\ RuleReturned
        /\ rule_result.translation = IfOf(c, t, e).dax

\* C17: Case When C1 Then R1 ... When Ck Then Rk Else D End becomes
\* SWITCH(TRUE(), C1, R1, ..., Ck, Rk, D) for every k >= 1: the pairs in
\* source order, and the Else branch as the one trailing default.
C17_CaseBecomesSwitch ==
    \A c \in CaseCases :
        (RuleReturned /\ rule_expr = c.src) => rule_result.translation = c.dax

\* a Case block with MaxBranches different branches has been translated
C17_Witness ==
    \E bs \in [1..MaxBranches -> BranchParts], d \in DefaultParts :
        /\ \A i, j \in 1..MaxBranches : i # j => bs[i] # bs[j]
        /\ rule_expr = CaseOf(bs, d).src
        /\ RuleReturned
        /\ rule_result.translation = CaseOf(bs, d).dax

\* C18: Agg(Table.Field) Where Cond becomes CALCULATE(AGG(Table[Field]),
\* Cond'), AGG the mapped aggregate name and Cond' the condition with its
\* field references and date functions rewritten.
C18_AggregateWithFilter ==
    \A c \in WhereCases :
        (RuleReturned /\ rule_expr = c.src) => rule_result.translation = c.dax

\* an aggregate filtered by a condition on CurrentDate() has been translated
C18_Witness ==
    \E a \in AggregateParts, f \in FieldParts, c \in FilterParts :
        /\ Contains(Lower(c.src), NameCurrentDate)
        /\ Contains(c.dax, NameTODAY)
        /\ rule_expr = WhereOf(a, f, c).src
        /\ RuleReturned
        /\ rule_result.translation = WhereOf(a, f, c).dax

\* C19: every Table.Field becomes Table[Field], also inside an aggregate
\* call that is itself rewritten: Sum(T.F) gives SUM(T[F]) and
\* Count(Distinct T.F) gives COUNT(Distinct T[F]).
C19_FieldReferencesRewritten ==
    \A c \in FieldCases :
        (RuleReturned /\ rule_expr = c.src) =>
            /\ rule_result.translation = c.dax
            /\ ~Contains(rule_result.translation, <<".">>)

\* Count(Distinct Table.Field) has been translated
C19_Witness ==
    /\ RuleReturned
    /\ rule_expr \in {c.src : c \in FieldCases}
    /\ Len(rule_expr) > 6
    /\ SubSeq(rule_expr, 1, 6) = <<"C","o","u","n","t","(">>
    /\ SubSeq(rule_result.translation, 1, 6) = NameCOUNT \o <<"(">>
    /\ Contains(rule_result.translation, <<"[">>)

\* C21: an expression that no rule rewrites, or whose parentheses, quotes
\* or brackets are unbalanced, is answered and not raised on: the result
\* has a low confidence and the original text, unchanged.
C21_PassthroughLowConfidence ==
    (RuleReturned /\ rule_expr \in PassthroughCases) =>
        /\ rule_result.confidence = "low"
        /\ rule_result.translation = rule_expr

\* an expression with a field reference and an unclosed quote has been
\* answered
C21_Witness ==
    /\ RuleReturned
    /\ rule_expr \in UnbalancedExprs
    /\ Contains(rule_expr, <<".">>)
    /\ Contains(rule_expr, <<"'">>)
    /\ rule_result.translation = rule_expr

\* ---------------------------------------------------------------------
\* utils/tfidf_index.py: TFIDFIndex
\* A text is given by its words.

\* bound: the texts of a corpus
MaxTexts == 2

\* bound: the largest top_k
MaxTopK == 3

\* the words TfidfVectorizer's token_pattern drops: fewer than two
\* word characters
OneCharWords == {"x"}

\* the terms the vectorizer's analyzer finds in a text
Analyze(text) == {text[k] : k \in 1..Len(text)} \ OneCharWords

TextPool == {<<"x">>, <<"sum">>, <<"sum", "if">>}

Corpora == UNION {[1..n -> TextPool] : n \in 0..MaxTexts}

QueryPool == {<<>>, <<"sum">>, <<"if">>}

TopKs == {-1} \cup 0..MaxTopK

\* TfidfVectorizer(ngram_range=(1, 3), max_features=20000) before any fit;
\* rebuilds: this build of the library replaces its fitted transformer at
\* the start of fit_transform rather than at its end
NewVectorizer(rebuilds) ==
    [fitted |-> FALSE, vocabulary |-> {}, idf |-> FALSE,
     rebuilds |-> rebuilds]

\* vectorizer.fit_transform(texts): raises on a corpus without terms,
\* before the vocabulary is replaced
FitTransform(vec, new_texts) ==
    LET vocabulary == UNION {Analyze(new_texts[i]) : i \in 1..Len(new_texts)}
    IN  IF vocabulary = {}
        THEN [raised     |-> "ValueError",
              vectorizer |-> [vec EXCEPT !.idf = IF vec.rebuilds THEN FALSE
                                                 ELSE @],
              matrix     |-> PyNone]
        ELSE [raised     |-> "none",
              vectorizer |-> [vec EXCEPT !.fitted = TRUE,
                                         !.vocabulary = vocabulary,
                                         !.idf = TRUE],
              matrix     |-> [rows |-> [i \in 1..Len(new_texts) |->
                                           Analyze(new_texts[i])]]]

\* fit with the matrix left as it was on an empty corpus
FitEmptyKeepsMatrix(self, new_texts) ==
    IF new_texts = <<>>
    THEN [raised |-> "none", self |-> [self EXCEPT !.texts = new_texts]]
    ELSE LET r == FitTransform(self.vectorizer, new_texts)
         IN  [raised |-> r.raised,
              self   |-> [texts      |-> new_texts,
                          matrix     |-> IF r.raised = "none" THEN r.matrix
                                         ELSE self.matrix,
                          vectorizer |-> r.vectorizer]]

\* TFIDFIndex.fit(texts): self.texts is assigned first, self.matrix only
\* when fit_transform returns
Fit(self, new_texts) ==
    IF new_texts = <<>>
    THEN [raised |-> "none",
          self   |-> [self EXCEPT !.texts = new_texts, !.matrix = PyNone]]
    ELSE LET r == FitTransform(self.vectorizer, new_texts)
         IN  [raised |-> r.raised,
              self   |-> [texts      |-> new_texts,
                          matrix     |-> IF r.raised = "none" THEN r.matrix
                                         ELSE self.matrix,
                          vectorizer |-> r.vectorizer]]

\* vectorizer.transform([query]): the query's terms of the fitted
\* vocabulary; raises when the vectorizer or its transformer is not fitted
Transform(vec, query) ==
    IF ~vec.fitted \/ ~vec.idf
    THEN [raised |-> "NotFittedError", value |-> {}]
    ELSE [raised |-> "none", value |-> Analyze(query) \cap vec.vocabulary]

\* the scale of the integer scores
ScoreScale == 36

\* the cosine of two term vectors, squared and scaled to an integer; 0 when
\* either has no term
Similarity(qv, row) ==
    IF qv = {} \/ row = {} THEN 0
    ELSE (Cardinality(qv \cap row) * Cardinality(qv \cap row) * ScoreScale)
           \div (Cardinality(qv) * Cardinality(row))

\* cosine_similarity(qv, self.matrix)[0]
CosineSimilarity(qv, m) ==
    [i \in 1..Len(m.rows) |-> Similarity(qv, m.rows[i])]

\* enumerate(sims): pairs (index, score), indexes from 0
Enumerate(sims) ==
    [i \in 1..Len(sims) |-> [index |-> i - 1, score |-> sims[i]]]

\* the number of leading entries of sorted that stay before p: those with
\* a score of at least p's
StaysBefore(sorted, p) ==
    Cardinality({k \in 1..Len(sorted) : sorted[k].score >= p.score})

RECURSIVE SortedByScore(_)
\* sorted(pairs, key=lambda x: x[1], reverse=True): by score descending,
\* pairs of equal score in their original order
SortedByScore(pairs) ==
    IF pairs = <<>> THEN <<>>
    ELSE LET front == SortedByScore(SubSeq(pairs, 1, Len(pairs) - 1))
             p     == pairs[Len(pairs)]
             n     == StaysBefore(front, p)
         IN  SubSeq(front, 1, n) \o <<p>> \o SubSeq(front, n + 1, Len(front))

RECURSIVE Reversed(_)
Reversed(seq) ==
    IF seq = <<>> THEN <<>> ELSE Reversed(Tail(seq)) \o <<Head(seq)>>

\* the ranking an ascending sort read backwards gives: entries of equal
\* score in reverse order
RankedReversedAscending(sims) ==
    SortedByScore(Reversed(Enumerate(sims)))

\* ranked = sorted(enumerate(sims), key=lambda x: x[1], reverse=True)
Ranked(sims) == SortedByScore(Enumerate(sims))

\* the slice taken through position top_k
SliceThroughTopK(seq, top_k) ==
    IF top_k >= 0 THEN SubSeq(seq, 1, Min(top_k + 1, Len(seq)))
    ELSE SubSeq(seq, 1, Len(seq) + top_k)

\* seq[:top_k]
Slice(seq, top_k) ==
    IF top_k >= 0 THEN SubSeq(seq, 1, Min(top_k, Len(seq)))
    ELSE SubSeq(seq, 1, Len(seq) + top_k)

\* TFIDFIndex.search(query, top_k)
Search(self, query, top_k) ==
    IF self.matrix = PyNone THEN [raised |-> "none", value |-> <<>>]
    ELSE LET qv == Transform(self.vectorizer, query)
         IN  IF qv.raised # "none"
             THEN [raised |-> qv.raised, value |-> <<>>]
             ELSE [raised |-> "none",
                   value  |-> Slice(Ranked(CosineSimilarity(qv.value,
                                                            self.matrix)),
                                    top_k)]

Self == [texts |-> texts, matrix |-> matrix, vectorizer |-> vectorizer]

\* TFIDFIndex(): no texts, no matrix, an unfitted vectorizer
InitIndex ==
    /\ texts = <<>>
    /\ matrix = PyNone
    /\ vectorizer \in {NewVectorizer(b) : b \in BOOLEAN}
    /\ fit_outcome = "new"
    /\ search_args = PyNone
    /\ ranked = PyNone
    /\ app_message = "none"
    /\ HarvestIdle
    /\ EnhanceIdle
    /\ BatchIdle
    /\ RuleIdle
    /\ MeasureIdle
    /\ OrchIdle

\* a call idx.fit(texts), returning or raising
CallFit ==
    /\ fit_outcome # "off"
    /\ \E new_texts \in Corpora :
          LET r == Fit(Self, new_texts)
          IN  /\ texts' = r.self.texts
              /\ matrix' = r.self.matrix
              /\ vectorizer' = r.self.vectorizer
              /\ fit_outcome' = IF r.raised = "none" THEN "returned"
                                ELSE "raised"
    /\ search_args' = PyNone
    /\ ranked' = PyNone
    /\ UNCHANGED <<harvestVars, app_message, enhanceVars, batchVars,
                   ruleVars, measureVars, orchVars>>

\* a call idx.search(query, top_k)
CallSearch ==
    /\ fit_outcome # "off"
    /\ \E query \in QueryPool, top_k \in TopKs :
          /\ search_args' = [query |-> query, top_k |-> top_k]
          /\ ranked' = Search(Self, query, top_k)
    /\ UNCHANGED <<texts, matrix, vectorizer, fit_outcome, harvestVars,
                   app_message, enhanceVars, batchVars, ruleVars,
                   measureVars, orchVars>>

NextIndex == CallFit \/ CallSearch

SpecIndex == InitIndex /\ [][NextIndex]_vars

Searched == ranked # PyNone

\* the list a search returned, empty before one and after one that raised
Entries == IF Searched THEN ranked.value ELSE <<>>

\* C22: the list returned by search is ordered by score descending, and
\* entries of equal score by corpus index ascending.
C22_RankedByScoreThenIndex ==
    \A i, j \in 1..Len(Entries) :
        i < j => \/ Entries[i].score > Entries[j].score
                 \/ /\ Entries[i].score = Entries[j].score
                    /\ Entries[i].index < Entries[j].index

\* a search has returned two entries of one score above zero
C22_Witness ==
    /\ Len(Entries) >= 2
    /\ Entries[1].score = Entries[2].score
    /\ Entries[1].score > 0

\* C23: a search on an index never fitted, or fitted with an empty corpus,
\* returns the empty list, whatever the query and top_k, and does not
\* raise.
C23_EmptyCorpusYieldsEmpty ==
    (Searched /\ (fit_outcome = "new"
                    \/ (fit_outcome = "returned" /\ texts = <<>>)))
        => ranked = [raised |-> "none", value |-> <<>>]

\* an index fitted with a corpus and then with the empty corpus has been
\* searched for a word of the earlier corpus
C23_Witness ==
    /\ Searched
    /\ fit_outcome = "returned"
    /\ texts = <<>>
    /\ vectorizer.fitted
    /\ search_args.query # <<>>
    /\ search_args.top_k > 0
    /\ ranked.value = <<>>

\* the last fit returned: the index is fitted with Len(texts) texts
Fitted == fit_outcome = "returned"

\* C24: a search with the empty query on an index fitted with a non-empty
\* corpus returns the empty list: no entry, not even one of score zero.
C24_EmptyQueryYieldsEmpty ==
    (Searched /\ Fitted /\ texts # <<>> /\ search_args.query = <<>>)
        => ranked = [raised |-> "none", value |-> <<>>]

\* C25: on an index fitted with N texts, a search with top_k >= 0 returns
\* at most min(top_k, N) entries, with different indexes, all in 0..N-1.
C25_AtMostTopKOfCorpus ==
    (Searched /\ Fitted /\ search_args.top_k >= 0) =>
        /\ Len(Entries) <= Min(search_args.top_k, Len(texts))
        /\ \A i \in 1..Len(Entries) : Entries[i].index \in 0..(Len(texts) - 1)
        /\ \A i, j \in 1..Len(Entries) :
               i # j => Entries[i].index # Entries[j].index

\* a search with top_k above the corpus size has returned an entry for
\* every text of a corpus of at least two
C25_Witness ==
    /\ Searched
    /\ Fitted
    /\ Len(texts) >= 2
    /\ search_args.top_k > Len(texts)
    /\ Len(Entries) = Len(texts)

\* C30: after any fit, returned or raised, the stored matrix is the
\* matrix of the stored texts, and every index a search returns is below
\* len(texts).
C30_MatrixDescribesTexts ==
    fit_outcome \in {"returned", "raised"} =>
        /\ matrix # PyNone =>
               matrix.rows = [i \in 1..Len(texts) |-> Analyze(texts[i])]
        /\ \A i \in 1..Len(Entries) : Entries[i].index < Len(texts)

\* ---------------------------------------------------------------------
\* PBIP_Migration/python/validate_orchestrator.py and the rules runner it
\* calls, validate_migration_rules.py

\* bound: the rule failures and the rule warnings the runner counts
MaxFailed == 2

\* bound: the warnings of the extra checks
MaxExtraWarnings == 1

\* what a run of validate_migration_rules.py comes to: whether it finds a
\* PBIX or PBIP to validate, its summary counts, the fail_on_warn option
\* of its rules, and whether it prints a message on stderr
RunnerOutcomes ==
    [target_ok : BOOLEAN, failed : 0..MaxFailed, warnings : 0..MaxFailed,
     fail_on_warn : BOOLEAN, stderr : BOOLEAN]

\* validate_migration_rules.main: its exit code
RunnerExit(r) ==
    IF ~r.target_ok THEN 2
    ELSE IF r.failed > 0 THEN 1
    ELSE IF r.fail_on_warn /\ r.warnings > 0 THEN 1
    ELSE 0

\* validate_migration_rules.main: the report it prints
RunnerReport(r) ==
    IF r.target_ok
    THEN [summary |-> [failed |-> r.failed, warnings |-> r.warnings]]
    ELSE [summary |-> [failed |-> 0, warnings |-> 0]]

\* run_rules_runner: the parsed report, or None when the runner is
\* missing, exits with a code other than 0 (check_output raises
\* CalledProcessError) or prints what is not JSON (stderr is read with
\* stdout)
RunRulesRunner(present, r) ==
    IF ~present THEN PyNone
    ELSE IF RunnerExit(r) # 0 THEN PyNone
    ELSE IF r.stderr THEN PyNone
    ELSE RunnerReport(r)

\* the arguments of a run and what it finds: a PBIX it can read, a PBIP
\* root, how the snapshot and the baseline checks end, the warnings of the
\* extra checks, --run-rules, and whether the runner's file exists
OrchArgs ==
    [pbix : BOOLEAN, pbip : BOOLEAN, snapshot_raises : BOOLEAN,
     has_measures : BOOLEAN, has_relationships : BOOLEAN,
     extra_warnings : 0..MaxExtraWarnings, run_rules : BOOLEAN,
     runner_present : BOOLEAN]

Count(b) == IF b THEN 1 ELSE 0

\* main, up to the rules runner: mode and summary of the orchestrator's
\* own checks; mode None when there is nothing to validate
OwnChecks(a) ==
    IF a.pbix
    THEN IF a.snapshot_raises
         THEN [mode |-> "pbix", errors |-> 1, warnings |-> 0]
         ELSE [mode |-> "pbix",
               errors |-> Count(~a.has_measures)
                            + Count(~a.has_relationships),
               warnings |-> a.extra_warnings]
    ELSE IF a.pbip
    THEN [mode |-> "pbip-fallback", errors |-> 0, warnings |-> 1]
    ELSE [mode |-> "None", errors |-> 0, warnings |-> 0]

\* main: the report and the exit code
Main(a, r) ==
    LET own    == OwnChecks(a)
        merged == RunRulesRunner(a.runner_present, r)
        errors ==
            IF a.run_rules /\ merged # PyNone
            THEN own.errors + merged.summary.failed ELSE own.errors
        warnings ==
            IF ~a.run_rules THEN own.warnings
            ELSE IF merged # PyNone
            THEN own.warnings + merged.summary.warnings
            ELSE own.warnings + 1
    IN  IF own.mode = "None"
        THEN [mode |-> own.mode, rulesReport |-> PyNone,
              summary |-> [errors |-> 0, warnings |-> 0], exit_code |-> 2]
        ELSE [mode |-> own.mode,
              rulesReport |-> IF a.run_rules THEN merged ELSE PyNone,
              summary |-> [errors |-> errors, warnings |-> warnings],
              exit_code |-> IF errors > 0 THEN 1 ELSE 0]

InitOrch ==
    /\ orch_args \in OrchArgs
    /\ runner \in RunnerOutcomes
    \* the runner is handed the PBIP root the orchestrator found
    /\ orch_args.pbip => runner.target_ok
    /\ report = PyNone
    /\ app_message = "none"
    /\ HarvestIdle
    /\ EnhanceIdle
    /\ BatchIdle
    /\ RuleIdle
    /\ MeasureIdle
    /\ IndexIdle

\* python validate_orchestrator.py ...
CallMain ==
    /\ orch_args # PyNone
    /\ report = PyNone
    /\ report' = Main(orch_args, runner)
    /\ UNCHANGED <<orch_args, runner, harvestVars, app_message, enhanceVars,
                   batchVars, ruleVars, measureVars, indexVars>>

NextOrch == CallMain

SpecOrch == InitOrch /\ [][NextOrch]_vars

\* C26: with --run-rules true, when the rules runner reports a failed
\* ERROR-level rule (summary.failed > 0, exit code 1), the orchestrator's
\* summary.errors is above 0 and it exits with code 1.
C26_RuleFailuresMerged ==
    (/\ report # PyNone
     /\ report.exit_code # 2
     /\ orch_args.run_rules
     /\ orch_args.runner_present
     /\ runner.target_ok
     /\ runner.failed > 0
     /\ RunnerExit(runner) = 1)
        => /\ report.summary.errors > 0
           /\ report.exit_code = 1

(***************************************************************************)
(* Claims about the records of the harvester                               *)
(***************************************************************************)
\* a text matches a legacy-syntax signature: one of the patterns, or one of
\* the annotation names
MatchesSignature(text) ==
    \/ \E k \in 1..Len(SAPBO_EXPRESSION_PATTERNS) :
           ReSearch(SAPBO_EXPRESSION_PATTERNS[k], text)
    \/ \E name \in AnnotationNames : Contains(text, name)

SignatureOf == [v \in AllValues |-> MatchesSignature(Strip(v))]

\* the key/value pairs of objects that the harvester is to emit: a string
\* value, under a key whose lower-cased name contains a formula-field
\* name, with a text that matches a signature
EmittedFields(doc) ==
    {a \in AddressesOf(doc) \ {<<>>} :
        /\ ParentAt(doc, a).kind = "dict"
        /\ EntryAt(doc, a).val.kind = "str"
        /\ \E field \in SAPBO_EXPRESSION_FIELDS :
               Contains(Lower(EntryAt(doc, a).key), field)
        /\ LET v == EntryAt(doc, a).val.str
           IN  IF v \in AllValues THEN SignatureOf[v]
               ELSE MatchesSignature(Strip(v))}

\* C27: a record is emitted for a key/value pair of an object exactly when
\* the value is a string, the lower-cased key contains a formula-field
\* name and the value matches a signature, wherever the object lies:
\* objects and arrays are recursed into whatever their key.  (Of fields
\* with the same text the first is the one returned.)
C27_EmittedExactlyForFormulaFields ==
    (Returned /\ WellFormed
       /\ max_hits >= Cardinality(EmittedFields(Doc))) =>
        /\ \A j \in 1..Len(hits.value) :
               \E a \in EmittedFields(Doc) :
                   /\ hits.value[j].path = PathTo(Doc, a, <<>>)
                   /\ hits.value[j].text = TextAt(Doc, a)
        /\ \A a \in EmittedFields(Doc) :
               \E j \in 1..Len(hits.value) :
                   /\ hits.value[j].text = TextAt(Doc, a)
                   /\ (\A b \in EmittedFields(Doc) :
                           TextAt(Doc, b) = TextAt(Doc, a) => ~Before(b, a))
                        => hits.value[j].path = PathTo(Doc, a, <<>>)

\* an array under a key that itself names a formula field was harvested:
\* one of its objects gave a record, another holds a string that matches
\* no signature and gave none
C27_Witness ==
    /\ Returned /\ WellFormed
    /\ max_hits >= Cardinality(EmittedFields(Doc))
    /\ Len(hits.value) = 1
    /\ Contains(hits.value[1].path, <<"[">>)
    /\ \E a \in AddressesOf(Doc) \ ({<<>>} \cup EmittedFields(Doc)) :
           /\ EntryAt(Doc, a).val.kind = "str"
           /\ EntryAt(Doc, a).key = KeyFormula

RECURSIVE KeysAbove(_, _)
\* the keys on the way from node to the node at address a, outermost first
KeysAbove(node, a) ==
    IF a = <<>> THEN <<>>
    ELSE LET e == node.items[Head(a)]
         IN  (IF node.kind = "dict" THEN <<e.key>> ELSE <<>>)
               \o KeysAbove(e.val, Tail(a))

\* the outermost ancestor key of the field at a that is in the object-type
\* vocabulary, 'unknown' when there is none
FolderOf(doc, a) ==
    LET keys    == KeysAbove(doc, Front(a))
        folders == {p \in 1..Len(keys) :
                       \E t \in 1..Len(SAPBO_OBJECT_TYPES) :
                           keys[p] = SAPBO_OBJECT_TYPES[t]}
    IN  IF folders = {} THEN UnknownStr
        ELSE keys[CHOOSE p \in folders : \A q \in folders : p <= q]

\* C28: the object_type of a record is the outermost ancestor key of its
\* field that is in the object-type vocabulary, whether that folder holds
\* an object or an array of objects, and 'unknown' only when no ancestor
\* key is in the vocabulary.
C28_ObjectTypeIsFolder ==
    (Returned /\ WellFormed) =>
        \A j \in 1..Len(hits.value) :
            \A a \in EmittedFields(Doc) :
                hits.value[j].path = PathTo(Doc, a, <<>>)
                    => hits.value[j].object_type = FolderOf(Doc, a)

\* a text holds a conditional or case block or join-like syntax: the last
\* three of the complex patterns
ConditionalOrJoin(text) ==
    \E k \in 4..Len(ComplexPatterns) :
        ReSearch(ComplexPatterns[k], Lower(text))

ConditionalOrJoinOf ==
    [t \in {Strip(v) : v \in AllValues} |-> ConditionalOrJoin(t)]

\* C29: needs_nim of a record is true exactly when its text holds a
\* conditional or case block or join-like syntax, or is longer than 200
\* characters; it is a function of the text.
C29_NeedsNimFromText ==
    (Returned /\ WellFormed) =>
        \A j \in 1..Len(hits.value) :
            LET text == hits.value[j].text
            IN  hits.value[j].needs_nim
                  = (\/ IF text \in DOMAIN ConditionalOrJoinOf
                        THEN ConditionalOrJoinOf[text]
                        ELSE ConditionalOrJoin(text)
                     \/ Len(text) > LongExpressionLen)

====
